---------------------------- MODULE Spec2Model ----------------------------
(***************************************************************************)
(* A model of the IEQL scan library (milesmcc/ieql):                       *)
(*   - patterns, triggers, scopes, thresholds, queries and query groups,   *)
(*     their compilation and the per-document scan (Spec);                 *)
(*   - the asynchronous scan engine built by scan_concurrently: the        *)
(*     caller-side AsyncScanInterface, the coordinator thread and the      *)
(*     worker threads, with their mpsc channels (EngineSpec and            *)
(*     FairEngineSpec), with workers that may panic (PanicEngineSpec);     *)
(*   - single calls of the library's functions on inputs drawn from        *)
(*     bounded sets (CallSpec).                                            *)
(* Strings are sequences of one-character strings.  Option<T> is a record  *)
(* [some, value]; Result<T, Issue> is a record with an `ok` field.         *)
(***************************************************************************)
EXTENDS Integers, Sequences, FiniteSets, TLC

VARIABLES
    \* ---- scanning (Spec) ----
    query_group,        \* the QueryGroup handed to compile (its `queries`)
    group,              \* Result<CompiledQueryGroup, Issue> currently held
    origin,             \* "none" | "compile" | "from": how `group` was built
    document,           \* the CompiledDocument scanned (Option)
    outputs,            \* the OutputBatch the group's scan_single returned
    singles,            \* per member query, the OutputBatch of its own scan_single
    \* ---- scan engine (EngineSpec) ----
    threads,            \* the `threads: u8` argument of scan_concurrently
    overflow_checks,    \* build profile: TRUE = arithmetic overflow panics
    outgoing_batches,   \* AsyncScanInterface.outgoing_batches: "Some" | "None"
    incoming,           \* buffer of the submission channel (incoming_*)
    pending_processing, \* the Arc<Mutex<usize>> counter
    poisoned,           \* the mutex was poisoned by a panic under the lock
    caller,             \* caller of the interface: [pc, batch]
    submitted,          \* number of batches handed to process() so far
    result,             \* what the last interface call returned
    accepted,           \* batches for which process() returned Ok
    backlog,            \* batches still in the submission channel at shutdown()
    delivered,          \* OutputBatches returned by lock_for_outputs, in order
    coordinator,        \* coordinator thread: [pc, request, batch]
    rx_requests,        \* buffer of the request channel
    rx_inputs,          \* per worker: buffer of its private input channel
    worker,             \* per worker: [pc, batch]
    ultimate,           \* buffer of the output channel (ultimate_*)
    batches,            \* per batch number, the DocumentReferenceBatch submitted
    produced,           \* per batch number, the OutputBatch a worker made of it
    \* ---- one library call on its own (CallSpec) ----
    call,               \* the function applied and its arguments
    ret                 \* what it returned

scan_vars == <<query_group, group, origin, document, outputs, singles>>
engine_vars == <<threads, overflow_checks, outgoing_batches, incoming,
                 pending_processing, poisoned, caller, submitted, result,
                 accepted, backlog, delivered, coordinator, rx_requests, rx_inputs,
                 worker, ultimate, batches, produced>>
call_vars == <<call, ret>>
vars == <<scan_vars, engine_vars, call_vars>>

---------------------------------------------------------------------------
(* Bounds of the model. *)

\* most queries in a QueryGroup
MaxQueries == 2
\* most worker threads asked of scan_concurrently
MaxWorkers == 2
\* most batches the caller submits
MaxBatches == 2
\* width in bits of the modelled usize counter
UsizeBits == 2
\* the regex crate's size limit on a compiled program, in instructions
SizeLimit == 8

---------------------------------------------------------------------------
(* Generic helpers. *)

None == [some |-> FALSE, value |-> <<>>]
Some(v) == [some |-> TRUE, value |-> v]

Range(s) == {s[i] : i \in DOMAIN s}

\* all sequences over S of length at most n
SeqsUpTo(S, n) == UNION {[1..k -> S] : k \in 0..n}

\* the orders in which a HashSet holding S may be iterated
IterationOrders(S) ==
    {o \in [1..Cardinality(S) -> S] : \A i, j \in DOMAIN o : o[i] = o[j] => i = j}

RECURSIVE Flatten(_)
Flatten(ss) == IF ss = <<>> THEN <<>> ELSE Head(ss) \o Flatten(Tail(ss))

\* the multiset of the elements of a sequence
BagOf(s) == [x \in Range(s) |-> Cardinality({i \in DOMAIN s : s[i] = x})]

---------------------------------------------------------------------------
(* The regex crate, restricted to the syntax the model's patterns use:     *)
(* literal characters, `.` (any character), `\c` (escaped literal) and an  *)
(* unclosed `(`, which does not compile.  A compiled program is a sequence *)
(* of instructions, one per character matched; Regex::new and              *)
(* RegexSet::new refuse a program larger than the size limit, and a set    *)
(* is compiled as one program holding all of its patterns.                 *)

MetaChars == {".", "(", "\\"}

RECURSIVE regex_escape(_)
regex_escape(text) ==
    IF text = <<>> THEN <<>>
    ELSE (IF Head(text) \in MetaChars THEN <<"\\", Head(text)>> ELSE <<Head(text)>>)
         \o regex_escape(Tail(text))

RegexError == [ok |-> FALSE, prog |-> <<>>]

RECURSIVE Regex_parse(_)
Regex_parse(re) ==
    IF re = <<>> THEN [ok |-> TRUE, prog |-> <<>>]
    ELSE IF Head(re) = "\\" THEN
        IF Len(re) < 2 THEN RegexError
        ELSE LET rest == Regex_parse(SubSeq(re, 3, Len(re)))
             IN  IF rest.ok
                 THEN [ok |-> TRUE, prog |-> <<[any |-> FALSE, ch |-> re[2]]>> \o rest.prog]
                 ELSE RegexError
    ELSE IF Head(re) = "(" THEN RegexError
    ELSE LET rest == Regex_parse(Tail(re))
         IN  IF rest.ok
             THEN [ok |-> TRUE,
                   prog |-> <<[any |-> Head(re) = ".", ch |-> Head(re)]>> \o rest.prog]
             ELSE RegexError

\* Regex::new: the pattern must parse and its program fit the size limit
Regex_new(re) ==
    LET parsed == Regex_parse(re)
    IN  IF parsed.ok /\ Len(parsed.prog) <= SizeLimit THEN parsed ELSE RegexError

\* the program `prog` matches `text` at byte offset `start`
MatchesAt(prog, text, start) ==
    /\ start + Len(prog) <= Len(text)
    /\ \A j \in 1..Len(prog) : prog[j].any \/ prog[j].ch = text[start + j]

Regex_is_match(prog, text) == \E start \in 0..Len(text) : MatchesAt(prog, text, start)

\* leftmost match, as Option<(start, end)>
Regex_find(prog, text) ==
    IF Regex_is_match(prog, text)
    THEN LET start == CHOOSE s \in 0..Len(text) :
                         /\ MatchesAt(prog, text, s)
                         /\ \A e \in 0..Len(text) : MatchesAt(prog, text, e) => s <= e
         IN  Some(<<start, start + Len(prog)>>)
    ELSE [some |-> FALSE, value |-> <<0, 0>>]

RECURSIVE ProgramSize(_)
ProgramSize(progs) ==
    IF progs = <<>> THEN 0 ELSE Len(Head(progs)) + ProgramSize(Tail(progs))

\* mutant: the size limit is applied to each pattern of the set on its own
RegexSet_new_per_pattern(patterns) ==
    IF \A i \in DOMAIN patterns : Regex_new(patterns[i]).ok
    THEN [ok |-> TRUE, progs |-> [i \in DOMAIN patterns |-> Regex_new(patterns[i]).prog]]
    ELSE [ok |-> FALSE, progs |-> <<>>]

\* RegexSet::new: every pattern must parse and the one program that holds
\* them all must fit the size limit
RegexSet_new(patterns) ==
    IF /\ \A i \in DOMAIN patterns : Regex_parse(patterns[i]).ok
       /\ ProgramSize([i \in DOMAIN patterns |-> Regex_parse(patterns[i]).prog]) <= SizeLimit
    THEN [ok |-> TRUE, progs |-> [i \in DOMAIN patterns |-> Regex_new(patterns[i]).prog]]
    ELSE [ok |-> FALSE, progs |-> <<>>]

\* RegexSet::matches: the (0-based) indices of the patterns that match
RegexSet_matches(progs, text) ==
    {i - 1 : i \in {k \in DOMAIN progs : Regex_is_match(progs[k], text)}}

---------------------------------------------------------------------------
(* common/pattern.rs *)

Pattern_get_as_safe_regex(pattern) ==
    IF pattern.kind = "RegEx" THEN pattern.content ELSE regex_escape(pattern.content)

\* Result<CompiledPattern, Issue>
Pattern_compile(pattern) ==
    LET compiled == IF pattern.kind = "Raw"
                    THEN Regex_new(regex_escape(pattern.content))
                    ELSE Regex_new(pattern.content)
    IN  [ok |-> compiled.ok, regex |-> compiled.prog]

CompiledPattern_quick_check(pattern, other) == Regex_is_match(pattern.regex, other)

\* Option<PatternMatch>
CompiledPattern_full_check(pattern, other) ==
    LET finding == Regex_find(pattern.regex, other)
    IN  [some |-> finding.some,
         value |-> [excerpt |-> other, relevant |-> finding.value]]

---------------------------------------------------------------------------
(* query/trigger.rs, query/scope.rs *)

\* Result<CompiledTrigger, Issue>
Trigger_compile(trigger) ==
    LET compiled == Pattern_compile(trigger.pattern)
    IN  [ok |-> compiled.ok,
         value |-> [pattern |-> [regex |-> compiled.regex], id |-> trigger.id]]

CompiledTrigger_quick_check(trigger, other) ==
    CompiledPattern_quick_check(trigger.pattern, other)

CompiledTrigger_full_check(trigger, other) ==
    CompiledPattern_full_check(trigger.pattern, other)

\* Result<CompiledScope, Issue>
Scope_compile(scope) ==
    LET compiled == Pattern_compile(scope.pattern)
    IN  [ok |-> compiled.ok,
         value |-> [pattern |-> [regex |-> compiled.regex], content |-> scope.content]]

---------------------------------------------------------------------------
(* input/document.rs *)

CompiledDocument_content(doc, content) ==
    IF content = "Raw" THEN doc.raw ELSE doc.text

\* the least index i >= from with s[i] = c, or 0 when there is none
FirstIndex(s, c, from) ==
    IF \E i \in from..Len(s) : s[i] = c
    THEN CHOOSE i \in from..Len(s) : s[i] = c /\ \A j \in from..(i - 1) : s[j] # c
    ELSE 0

\* str::ends_with
ends_with(value, suffix) ==
    /\ Len(suffix) <= Len(value)
    /\ SubSeq(value, Len(value) - Len(suffix) + 1, Len(value)) = suffix

DotHtml == <<".", "h", "t", "m", "l">>
TextHtml == <<"t", "e", "x", "t", "/", "h", "t", "m", "l">>

\* a byte of `data` that is not valid UTF-8, and the character U+FFFD that
\* String::from_utf8_lossy puts in its place; every other byte of the model
\* is an ASCII character
InvalidByte == "0xFF"
ReplacementCharacter == "U+FFFD"

\* HTML_REGEX.replace_all(text, " ") for HTML_REGEX = <(.*?)> : from the
\* leftmost `<` that has a `>` after it up to the nearest such `>`
RECURSIVE HTML_REGEX_replace_all(_)
HTML_REGEX_replace_all(text) ==
    IF text = <<>> THEN <<>>
    ELSE IF Head(text) = "<" /\ FirstIndex(text, ">", 2) # 0
    THEN <<" ">> \o HTML_REGEX_replace_all(
                        SubSeq(text, FirstIndex(text, ">", 2) + 1, Len(text)))
    ELSE <<Head(text)>> \o HTML_REGEX_replace_all(Tail(text))

\* SPACE_REGEX.replace_all(text, " ") for SPACE_REGEX = \s{2,}
RECURSIVE SPACE_REGEX_replace_all(_)
SPACE_REGEX_replace_all(text) ==
    IF text = <<>> THEN <<>>
    ELSE IF Len(text) >= 2 /\ text[1] = " " /\ text[2] = " "
    THEN SPACE_REGEX_replace_all(Tail(text))
    ELSE <<Head(text)>> \o SPACE_REGEX_replace_all(Tail(text))

\* htmlescape::decode_html, for text whose only entity name is `lt`: an
\* `&` opens an entity that runs to the next `;` (an error when there is
\* none, or when the name is not known)
RECURSIVE decode_html(_)
decode_html(text) ==
    IF text = <<>> THEN [ok |-> TRUE, value |-> <<>>]
    ELSE LET end == FirstIndex(text, ";", 2)
             rest == decode_html(IF Head(text) = "&"
                                 THEN SubSeq(text, end + 1, Len(text))
                                 ELSE Tail(text))
         IN  IF Head(text) # "&"
             THEN [ok |-> rest.ok, value |-> <<Head(text)>> \o rest.value]
             ELSE IF end = 0 \/ SubSeq(text, 2, end - 1) # <<"l", "t">>
             THEN [ok |-> FALSE, value |-> <<>>]
             ELSE [ok |-> rest.ok, value |-> <<"<">> \o rest.value]

\* mutant: a url that holds ".html" anywhere makes the document HTML
Document_detect_document_kind_anywhere(doc) ==
    LET is_html == doc.mime.some /\ doc.mime.value = TextHtml
    IN  IF is_html \/ (doc.url.some
                        /\ \E i \in 1..Len(doc.url.value) :
                               ends_with(SubSeq(doc.url.value, 1, i), DotHtml))
        THEN "Html" ELSE "Unknown"

Document_detect_document_kind(doc) ==
    LET is_html == doc.mime.some /\ doc.mime.value = TextHtml
    IN  IF is_html \/ (doc.url.some /\ ends_with(doc.url.value, DotHtml))
        THEN "Html" ELSE "Unknown"

\* Document::domain: Url::parse(url).host_str(), for urls that are either
\* relative (no `:`; they do not parse) or of the form scheme://host/path
Document_domain(doc) ==
    IF ~doc.url.some THEN None
    ELSE LET own_url == doc.url.value
             colon == FirstIndex(own_url, ":", 1)
             slash == FirstIndex(own_url, "/", colon + 3)
             host == SubSeq(own_url, colon + 3,
                            IF slash = 0 THEN Len(own_url) ELSE slash - 1)
         IN  IF colon <= 1 THEN None
             ELSE IF SubSeq(own_url, colon + 1, colon + 2) # <<"/", "/">> THEN None
             ELSE IF host = <<>> THEN None
             ELSE Some(host)

\* Document::raw: String::from_utf8_lossy
Document_raw(doc) ==
    [i \in DOMAIN doc.data |->
        IF doc.data[i] = InvalidByte THEN ReplacementCharacter ELSE doc.data[i]]

Document_extract_document_text(doc) ==
    IF Document_detect_document_kind(doc) = "Html"
    THEN LET extracted == SPACE_REGEX_replace_all(HTML_REGEX_replace_all(Document_raw(doc)))
             decoded == decode_html(extracted)
         IN  IF decoded.ok THEN decoded.value ELSE extracted
    ELSE Document_raw(doc)

\* impl CompilableTo<CompiledDocument> for Document: Result<CompiledDocument, Issue>
Document_compile(doc) ==
    [ok |-> TRUE,
     value |-> [url |-> doc.url,
                raw |-> Document_raw(doc),
                mime |-> doc.mime,
                text |-> Document_extract_document_text(doc),
                domain |-> Document_domain(doc)]]

\* impl CompilableTo<CompiledDocumentBatch> for DocumentBatch: a document
\* that does not compile is left out
DocumentBatch_compile(documents) ==
    [ok |-> TRUE,
     value |-> Flatten([i \in DOMAIN documents |->
                          IF Document_compile(documents[i]).ok
                          THEN <<Document_compile(documents[i]).value>>
                          ELSE <<>>])]

---------------------------------------------------------------------------
(* common/retrieve.rs.  The file system holds one file, of content "a",   *)
(* at every path that starts with "f", and nothing at any other path.     *)

NoDocument == [url |-> None, data |-> <<>>, mime |-> None]

\* Result<Document, Issue>
load_document(path) ==
    IF path # <<>> /\ Head(path) = "f"
    THEN [ok |-> TRUE, value |-> [url |-> Some(path), data |-> <<"a">>, mime |-> None]]
    ELSE [ok |-> FALSE, value |-> NoDocument]

---------------------------------------------------------------------------
(* query/threshold.rs *)

IsNested(consideration) == consideration.kind = "NestedThreshold"

\* Result<bool, Issue>; `triggers` is the HashMap from trigger id to hit
RECURSIVE Threshold_evaluate(_, _)
\* mutant: the comparison of `matched` with `requires` has its operands swapped
Threshold_evaluate_swapped(threshold, triggers) ==
    LET considers == threshold.considers
        res == [i \in DOMAIN considers |->
                  IF IsNested(considers[i])
                  THEN Threshold_evaluate(considers[i].threshold, triggers)
                  ELSE IF considers[i].id \in DOMAIN triggers
                       THEN [ok |-> TRUE, value |-> triggers[considers[i].id]]
                       ELSE [ok |-> FALSE, value |-> FALSE]]
        failed == {i \in DOMAIN considers : ~res[i].ok}
        matched == Cardinality({i \in DOMAIN considers : res[i].value})
        does_match == threshold.requires >= matched
    IN  IF failed # {}
        THEN [ok |-> FALSE, value |-> FALSE]
        ELSE [ok |-> TRUE, value |-> IF threshold.inverse THEN ~does_match ELSE does_match]

\* mutant: `matched` must exceed `requires`
Threshold_evaluate_strict(threshold, triggers) ==
    LET considers == threshold.considers
        res == [i \in DOMAIN considers |->
                  IF IsNested(considers[i])
                  THEN Threshold_evaluate(considers[i].threshold, triggers)
                  ELSE IF considers[i].id \in DOMAIN triggers
                       THEN [ok |-> TRUE, value |-> triggers[considers[i].id]]
                       ELSE [ok |-> FALSE, value |-> FALSE]]
        failed == {i \in DOMAIN considers : ~res[i].ok}
        matched == Cardinality({i \in DOMAIN considers : res[i].value})
        does_match == matched > threshold.requires
    IN  IF failed # {}
        THEN [ok |-> FALSE, value |-> FALSE]
        ELSE [ok |-> TRUE, value |-> IF threshold.inverse THEN ~does_match ELSE does_match]

\* mutant: the `inverse` flag is not applied
Threshold_evaluate_uninverted(threshold, triggers) ==
    LET considers == threshold.considers
        res == [i \in DOMAIN considers |->
                  IF IsNested(considers[i])
                  THEN Threshold_evaluate(considers[i].threshold, triggers)
                  ELSE IF considers[i].id \in DOMAIN triggers
                       THEN [ok |-> TRUE, value |-> triggers[considers[i].id]]
                       ELSE [ok |-> FALSE, value |-> FALSE]]
        failed == {i \in DOMAIN considers : ~res[i].ok}
        matched == Cardinality({i \in DOMAIN considers : res[i].value})
        does_match == matched >= threshold.requires
    IN  IF failed # {}
        THEN [ok |-> FALSE, value |-> FALSE]
        ELSE [ok |-> TRUE, value |-> does_match]

\* mutant: a trigger id missing from the map counts as a trigger that did not hit
Threshold_evaluate_lenient(threshold, triggers) ==
    LET considers == threshold.considers
        res == [i \in DOMAIN considers |->
                  IF IsNested(considers[i])
                  THEN Threshold_evaluate(considers[i].threshold, triggers)
                  ELSE IF considers[i].id \in DOMAIN triggers
                       THEN [ok |-> TRUE, value |-> triggers[considers[i].id]]
                       ELSE [ok |-> TRUE, value |-> FALSE]]
        failed == {i \in DOMAIN considers : ~res[i].ok}
        matched == Cardinality({i \in DOMAIN considers : res[i].value})
        does_match == matched >= threshold.requires
    IN  IF failed # {}
        THEN [ok |-> FALSE, value |-> FALSE]
        ELSE [ok |-> TRUE, value |-> IF threshold.inverse THEN ~does_match ELSE does_match]

\* mutant: `requires` counts for no more than the number of considerations
Threshold_evaluate_capped(threshold, triggers) ==
    LET considers == threshold.considers
        res == [i \in DOMAIN considers |->
                  IF IsNested(considers[i])
                  THEN Threshold_evaluate(considers[i].threshold, triggers)
                  ELSE IF considers[i].id \in DOMAIN triggers
                       THEN [ok |-> TRUE, value |-> triggers[considers[i].id]]
                       ELSE [ok |-> FALSE, value |-> FALSE]]
        failed == {i \in DOMAIN considers : ~res[i].ok}
        matched == Cardinality({i \in DOMAIN considers : res[i].value})
        does_match == matched >= threshold.requires \/ matched = Len(considers)
    IN  IF failed # {}
        THEN [ok |-> FALSE, value |-> FALSE]
        ELSE [ok |-> TRUE, value |-> IF threshold.inverse THEN ~does_match ELSE does_match]

Threshold_evaluate(threshold, triggers) ==
    LET considers == threshold.considers
        res == [i \in DOMAIN considers |->
                  IF IsNested(considers[i])
                  THEN Threshold_evaluate(considers[i].threshold, triggers)
                  ELSE IF considers[i].id \in DOMAIN triggers
                       THEN [ok |-> TRUE, value |-> triggers[considers[i].id]]
                       ELSE [ok |-> FALSE, value |-> FALSE]]
        failed == {i \in DOMAIN considers : ~res[i].ok}
        matched == Cardinality({i \in DOMAIN considers : res[i].value})
        does_match == matched >= threshold.requires
    IN  IF failed # {}
        THEN [ok |-> FALSE, value |-> FALSE]
        ELSE [ok |-> TRUE, value |-> IF threshold.inverse THEN ~does_match ELSE does_match]

---------------------------------------------------------------------------
(* output/output.rs *)

\* mutant: FullContent carries the content the query's scope selects
Output_new_scoped(doc, query, matches, id) ==
    LET include == query.response.include
        item(kind) ==
            CASE kind = "Domain"      -> [item |-> kind, text |-> doc.domain, matches |-> <<>>]
              [] kind = "Mime"        -> [item |-> kind, text |-> doc.mime, matches |-> <<>>]
              [] kind = "Url"         -> [item |-> kind, text |-> doc.url, matches |-> <<>>]
              [] kind = "Excerpt"     -> [item |-> kind, text |-> None, matches |-> matches]
              [] kind = "FullContent" ->
                    [item |-> kind,
                     text |-> Some(CompiledDocument_content(doc, query.scope.content)),
                     matches |-> <<>>]
    IN  [items |-> [i \in DOMAIN include |-> item(include[i])],
         kind |-> query.response.kind,
         id |-> id,
         query_id |-> query.id]

Output_new(doc, query, matches, id) ==
    LET include == query.response.include
        \* an OutputItem: `text` is the payload of Url, Mime, Domain and
        \* FullContent, `matches` the payload of Excerpt
        item(kind) ==
            CASE kind = "Domain"      -> [item |-> kind, text |-> doc.domain, matches |-> <<>>]
              [] kind = "Mime"        -> [item |-> kind, text |-> doc.mime, matches |-> <<>>]
              [] kind = "Url"         -> [item |-> kind, text |-> doc.url, matches |-> <<>>]
              [] kind = "Excerpt"     -> [item |-> kind, text |-> None, matches |-> matches]
              [] kind = "FullContent" ->
                    [item |-> kind, text |-> Some(doc.raw), matches |-> <<>>]
    IN  [items |-> [i \in DOMAIN include |-> item(include[i])],
         kind |-> query.response.kind,
         id |-> id,
         query_id |-> query.id]

\* OutputBatch::merge_with
OutputBatch_merge_with(batch, other) == batch \o other

---------------------------------------------------------------------------
(* query/query.rs: Query::compile *)

NoCompiledQuery ==
    [response |-> [kind |-> "Full", include |-> <<>>],
     scope |-> [pattern |-> [regex |-> <<>>], content |-> "Raw"],
     threshold |-> [considers |-> <<>>, requires |-> 0, inverse |-> FALSE],
     triggers |-> <<>>,
     id |-> None]

\* Result<CompiledQuery, Issue>
Query_compile(query) ==
    LET scope == Scope_compile(query.scope)
        triggers == [i \in DOMAIN query.triggers |-> Trigger_compile(query.triggers[i])]
    IN  IF ~scope.ok \/ \E i \in DOMAIN triggers : ~triggers[i].ok
        THEN [ok |-> FALSE, value |-> NoCompiledQuery]
        ELSE [ok |-> TRUE,
              value |-> [response |-> query.response,
                         scope |-> scope.value,
                         threshold |-> query.threshold,
                         triggers |-> [i \in DOMAIN triggers |-> triggers[i].value],
                         id |-> query.id]]

---------------------------------------------------------------------------
(* common/validation.rs, query/response.rs, query/query.rs: validate.      *)
(* An Issue is [severity, about]; Option<Vec<Issue>> is None when the      *)
(* vector would be empty.                                                  *)

Issue_Error(about) == [severity |-> "Error", about |-> about]
Issue_Warning(about) == [severity |-> "Warning", about |-> about]

IssuesOrNone(issues) == IF issues = <<>> THEN None ELSE Some(issues)

disallowed_items == {"Excerpt", "Url"}

\* the issues of the items include[1..n], in order
RECURSIVE ResponseIssues(_, _)
\* mutant: an item already reported is not reported again
ResponseIssues_once(include, n) ==
    IF n = 0 THEN <<>>
    ELSE ResponseIssues(include, n - 1)
         \o (IF include[n] \in disallowed_items
                 /\ \A k \in 1..(n - 1) : include[k] # include[n]
              THEN <<Issue_Error(include[n])>>
              ELSE <<>>)

ResponseIssues(include, n) ==
    IF n = 0 THEN <<>>
    ELSE ResponseIssues(include, n - 1)
         \o (IF include[n] \in disallowed_items
              THEN <<Issue_Error(include[n])>>
              ELSE <<>>)

\* impl Validatable for Response
Response_validate(response) ==
    IssuesOrNone(IF response.kind = "Partial"
                 THEN ResponseIssues(response.include, Len(response.include))
                 ELSE <<>>)

\* mutant: the query is not compiled
Query_validate_uncompiled(query) ==
    LET problems == Response_validate(query.response)
        trigger_responses ==
            [id \in {query.triggers[i].id : i \in DOMAIN query.triggers} |-> FALSE]
        evaluation == Threshold_evaluate(query.threshold, trigger_responses)
    IN  IssuesOrNone(
            (IF problems.some THEN problems.value ELSE <<>>)
            \o (IF ~evaluation.ok THEN <<Issue_Error("threshold")>>
                ELSE IF evaluation.value THEN <<Issue_Warning("threshold")>>
                ELSE <<>>))

\* impl Validatable for Query
Query_validate(query) ==
    LET problems == Response_validate(query.response)
        trigger_responses ==
            [id \in {query.triggers[i].id : i \in DOMAIN query.triggers} |-> FALSE]
        evaluation == Threshold_evaluate(query.threshold, trigger_responses)
    IN  IssuesOrNone(
            (IF Query_compile(query).ok THEN <<>> ELSE <<Issue_Error("compile")>>)
            \o (IF problems.some THEN problems.value ELSE <<>>)
            \o (IF ~evaluation.ok THEN <<Issue_Error("threshold")>>
                ELSE IF evaluation.value THEN <<Issue_Warning("threshold")>>
                ELSE <<>>))

---------------------------------------------------------------------------
(* scan/scanner.rs: impl Scanner for CompiledQuery *)

\* the `matches` HashMap after the trigger loop: a later trigger with the
\* same id overwrites an earlier one
TriggerHits(query, input) ==
    LET ids == {query.triggers[i].id : i \in DOMAIN query.triggers}
        last(id) == CHOOSE i \in DOMAIN query.triggers :
                        /\ query.triggers[i].id = id
                        /\ \A j \in DOMAIN query.triggers :
                               query.triggers[j].id = id => j <= i
    IN  [id \in ids |-> CompiledTrigger_quick_check(query.triggers[last(id)], input)]

\* the `match_results` vector after the trigger loop
RECURSIVE MatchResults(_, _)
MatchResults(triggers, input) ==
    IF triggers = <<>> THEN <<>>
    ELSE (IF CompiledTrigger_quick_check(Head(triggers), input)
          THEN <<CompiledTrigger_full_check(Head(triggers), input)>>
          ELSE <<>>)
         \o MatchResults(Tail(triggers), input)

\* mutant: the scope pattern is not tried on the url
CompiledQuery_scan_single_ungated(query, doc) ==
    LET url == IF doc.url.some THEN doc.url.value ELSE <<>>
        input == CompiledDocument_content(doc, query.scope.content)
        match_results == MatchResults(query.triggers, input)
        evaluation == Threshold_evaluate(query.threshold, TriggerHits(query, input))
    IN  IF \E i \in DOMAIN match_results : ~match_results[i].some THEN <<>>
        ELSE IF ~evaluation.ok THEN <<>>
        ELSE IF evaluation.value
             THEN <<Output_new(doc, query,
                               [i \in DOMAIN match_results |-> match_results[i].value],
                               None)>>
             ELSE <<>>

CompiledQuery_scan_single(query, doc) ==
    LET url == IF doc.url.some THEN doc.url.value ELSE <<>>
        input == CompiledDocument_content(doc, query.scope.content)
        match_results == MatchResults(query.triggers, input)
        evaluation == Threshold_evaluate(query.threshold, TriggerHits(query, input))
    IN  IF ~CompiledPattern_quick_check(query.scope.pattern, url) THEN <<>>
        ELSE IF \E i \in DOMAIN match_results : ~match_results[i].some THEN <<>>
        ELSE IF ~evaluation.ok THEN <<>>
        ELSE IF evaluation.value
             THEN <<Output_new(doc, query,
                               [i \in DOMAIN match_results |-> match_results[i].value],
                               None)>>
             ELSE <<>>

---------------------------------------------------------------------------
(* query/query.rs: QueryGroup::compile and From<CompiledQuery> *)

\* (relevant trigger ids, whether the query is an always-run)
RECURSIVE recursively_analyze_threshold(_)
\* mutant: the always-run flag of nested thresholds is dropped
recursively_analyze_threshold_top_only(threshold) ==
    LET considers == threshold.considers
        nested == [i \in DOMAIN considers |->
                     IF IsNested(considers[i])
                     THEN recursively_analyze_threshold(considers[i].threshold)
                     ELSE [relevant_triggers |-> <<considers[i].id>>, is_always |-> FALSE]]
    IN  [relevant_triggers |->
             Flatten([i \in DOMAIN considers |-> nested[i].relevant_triggers]),
         is_always |-> threshold.inverse \/ threshold.requires = 0]

\* mutant: `requires == 0` does not make a query an always-run
recursively_analyze_threshold_inverse_only(threshold) ==
    LET considers == threshold.considers
        nested == [i \in DOMAIN considers |->
                     IF IsNested(considers[i])
                     THEN recursively_analyze_threshold(considers[i].threshold)
                     ELSE [relevant_triggers |-> <<considers[i].id>>, is_always |-> FALSE]]
    IN  [relevant_triggers |->
             Flatten([i \in DOMAIN considers |-> nested[i].relevant_triggers]),
         is_always |->
             \/ \E i \in DOMAIN considers : nested[i].is_always
             \/ threshold.inverse]

\* mutant: an always-run nested threshold does not make its parent always-run
recursively_analyze_threshold_own_level(threshold) ==
    LET considers == threshold.considers
        nested == [i \in DOMAIN considers |->
                     IF IsNested(considers[i])
                     THEN recursively_analyze_threshold(considers[i].threshold)
                     ELSE [relevant_triggers |-> <<considers[i].id>>, is_always |-> FALSE]]
    IN  [relevant_triggers |->
             Flatten([i \in DOMAIN considers |-> nested[i].relevant_triggers]),
         is_always |-> threshold.inverse \/ threshold.requires = 0]

recursively_analyze_threshold(threshold) ==
    LET considers == threshold.considers
        nested == [i \in DOMAIN considers |->
                     IF IsNested(considers[i])
                     THEN recursively_analyze_threshold(considers[i].threshold)
                     ELSE [relevant_triggers |-> <<considers[i].id>>, is_always |-> FALSE]]
    IN  [relevant_triggers |->
             Flatten([i \in DOMAIN considers |-> nested[i].relevant_triggers]),
         is_always |->
             \/ \E i \in DOMAIN considers : nested[i].is_always
             \/ threshold.inverse
             \/ threshold.requires = 0]

\* the content the shared matcher is fed (`optimized_content`)
optimized_content == "Text"

\* mutant: every trigger of the query adds its pattern
RECURSIVE SubRegexesOf_every_trigger(_, _)
SubRegexesOf_every_trigger(triggers, relevant_trigger_ids) ==
    IF triggers = <<>> THEN <<>>
    ELSE <<Pattern_get_as_safe_regex(Head(triggers).pattern)>>
         \o SubRegexesOf_every_trigger(Tail(triggers), relevant_trigger_ids)

\* the patterns one prefiltered query adds to the shared matcher
RECURSIVE SubRegexesOf(_, _)
SubRegexesOf(triggers, relevant_trigger_ids) ==
    IF triggers = <<>> THEN <<>>
    ELSE (IF Head(triggers).id \in Range(relevant_trigger_ids)
          THEN <<Pattern_get_as_safe_regex(Head(triggers).pattern)>>
          ELSE <<>>)
         \o SubRegexesOf(Tail(triggers), relevant_trigger_ids)

\* one pass of the `for query in &self.queries` loop over an accumulator
\* [ok, queries, sub_regexes, sub_regexes_index, always_runs]
\* mutant: the query's scope content is not compared with the feed channel
CompileStep_ignoring_content(acc, query) ==
    LET compiled_query == Query_compile(query)
        analysis == recursively_analyze_threshold(query.threshold)
        added == SubRegexesOf(query.triggers, analysis.relevant_triggers)
    IN  IF ~acc.ok THEN acc
        ELSE IF ~compiled_query.ok THEN [acc EXCEPT !.ok = FALSE]
        ELSE IF analysis.is_always
             THEN [acc EXCEPT !.always_runs = Append(@, compiled_query.value)]
             ELSE [acc EXCEPT
                     !.sub_regexes = @ \o added,
                     !.sub_regexes_index =
                         @ \o [i \in DOMAIN added |-> Len(acc.queries)],
                     !.queries = Append(@, compiled_query.value)]

\* mutant: a query that does not compile is left out and the loop goes on
CompileStep_skipping_failed(acc, query) ==
    LET compiled_query == Query_compile(query)
        analysis == recursively_analyze_threshold(query.threshold)
        added == SubRegexesOf(query.triggers, analysis.relevant_triggers)
    IN  IF ~acc.ok THEN acc
        ELSE IF ~compiled_query.ok THEN acc
        ELSE IF analysis.is_always \/ query.scope.content # optimized_content
             THEN [acc EXCEPT !.always_runs = Append(@, compiled_query.value)]
             ELSE [acc EXCEPT
                     !.sub_regexes = @ \o added,
                     !.sub_regexes_index =
                         @ \o [i \in DOMAIN added |-> Len(acc.queries)],
                     !.queries = Append(@, compiled_query.value)]

CompileStep(acc, query) ==
    LET compiled_query == Query_compile(query)
        analysis == recursively_analyze_threshold(query.threshold)
        added == SubRegexesOf(query.triggers, analysis.relevant_triggers)
    IN  IF ~acc.ok THEN acc
        ELSE IF ~compiled_query.ok THEN [acc EXCEPT !.ok = FALSE]
        ELSE IF analysis.is_always \/ query.scope.content # optimized_content
             THEN [acc EXCEPT !.always_runs = Append(@, compiled_query.value)]
             ELSE [acc EXCEPT
                     !.sub_regexes = @ \o added,
                     !.sub_regexes_index =
                         @ \o [i \in DOMAIN added |-> Len(acc.queries)],
                     !.queries = Append(@, compiled_query.value)]

RECURSIVE CompileLoop(_, _)
CompileLoop(acc, queries) ==
    IF queries = <<>> THEN acc
    ELSE CompileLoop(CompileStep(acc, Head(queries)), Tail(queries))

NoCompiledQueryGroup ==
    [queries |-> <<>>, regex_collected |-> <<>>, regex_collected_query_index |-> <<>>,
     always_run_queries |-> <<>>, regex_feed |-> "Raw"]

\* Result<CompiledQueryGroup, Issue>
QueryGroup_compile(queries) ==
    LET acc == CompileLoop([ok |-> TRUE, queries |-> <<>>, sub_regexes |-> <<>>,
                            sub_regexes_index |-> <<>>, always_runs |-> <<>>], queries)
        regex_set == RegexSet_new(acc.sub_regexes)
    IN  IF ~acc.ok \/ ~regex_set.ok
        THEN [ok |-> FALSE, value |-> NoCompiledQueryGroup]
        ELSE [ok |-> TRUE,
              value |-> [queries |-> acc.queries,
                         regex_collected |-> regex_set.progs,
                         regex_collected_query_index |-> acc.sub_regexes_index,
                         always_run_queries |-> acc.always_runs,
                         regex_feed |-> optimized_content]]

\* impl From<CompiledQuery> for CompiledQueryGroup
CompiledQueryGroup_from(query) ==
    [queries |-> <<>>,
     regex_collected |-> RegexSet_new(<< <<>> >>).progs,
     regex_collected_query_index |-> <<>>,
     always_run_queries |-> <<query>>,
     regex_feed |-> "Raw"]

---------------------------------------------------------------------------
(* scan/scanner.rs: impl Scanner for CompiledQueryGroup *)

\* the pattern indices the shared matcher reports for the document
GroupMatches(g, doc) ==
    RegexSet_matches(g.regex_collected, CompiledDocument_content(doc, g.regex_feed))

\* a reported pattern has no entry in regex_collected_query_index
IndexMiss(g, doc) ==
    \E m \in GroupMatches(g, doc) : m >= Len(g.regex_collected_query_index)

\* the HashSet `queries_to_run` (0-based indices into g.queries)
queries_to_run(g, doc) ==
    {g.regex_collected_query_index[m + 1] :
        m \in {k \in GroupMatches(g, doc) : k < Len(g.regex_collected_query_index)}}

\* `order` is the order in which the HashSet queries_to_run is iterated
\* mutant: the always-run queries are scanned before the candidates
CompiledQueryGroup_scan_single_always_first(g, doc, order) ==
    LET candidates == [k \in DOMAIN order |->
                         CompiledQuery_scan_single(g.queries[order[k] + 1], doc)]
        always == [k \in DOMAIN g.always_run_queries |->
                     CompiledQuery_scan_single(g.always_run_queries[k], doc)]
    IN  IF IndexMiss(g, doc) THEN <<>>
        ELSE IF \E k \in DOMAIN order : order[k] >= Len(g.queries) THEN <<>>
        ELSE OutputBatch_merge_with(Flatten(always), Flatten(candidates))

\* mutant: a candidate is scanned once for every pattern of it that fired
CompiledQueryGroup_scan_single_per_match(g, doc, order) ==
    LET fired == CHOOSE o \in IterationOrders(GroupMatches(g, doc)) : TRUE
        candidates == [k \in DOMAIN fired |->
                         CompiledQuery_scan_single(
                             g.queries[g.regex_collected_query_index[fired[k] + 1] + 1], doc)]
        always == [k \in DOMAIN g.always_run_queries |->
                     CompiledQuery_scan_single(g.always_run_queries[k], doc)]
    IN  IF IndexMiss(g, doc) THEN <<>>
        ELSE OutputBatch_merge_with(Flatten(candidates), Flatten(always))

CompiledQueryGroup_scan_single(g, doc, order) ==
    LET candidates == [k \in DOMAIN order |->
                         CompiledQuery_scan_single(g.queries[order[k] + 1], doc)]
        always == [k \in DOMAIN g.always_run_queries |->
                     CompiledQuery_scan_single(g.always_run_queries[k], doc)]
    IN  IF IndexMiss(g, doc) THEN <<>>
        ELSE IF \E k \in DOMAIN order : order[k] >= Len(g.queries) THEN <<>>
        ELSE OutputBatch_merge_with(Flatten(candidates), Flatten(always))

\* the OutputBatches scan_single may return for a document, one for every
\* order in which the HashSet queries_to_run may be iterated
ScanSingleResults(g, doc) ==
    {CompiledQueryGroup_scan_single(g, doc, order) :
        order \in IterationOrders(queries_to_run(g, doc))}

\* CompiledQueryGroup::scan_batch: the OutputBatches it may return
RECURSIVE CompiledQueryGroup_scan_batch(_, _)
\* mutant: the outputs of a document are put in front of those merged so far
CompiledQueryGroup_scan_batch_prepending(g, documents) ==
    IF documents = <<>> THEN {<<>>}
    ELSE {OutputBatch_merge_with(rest, first) :
            first \in ScanSingleResults(g, Head(documents)),
            rest \in CompiledQueryGroup_scan_batch(g, Tail(documents))}

CompiledQueryGroup_scan_batch(g, documents) ==
    IF documents = <<>> THEN {<<>>}
    ELSE {OutputBatch_merge_with(first, rest) :
            first \in ScanSingleResults(g, Head(documents)),
            rest \in CompiledQueryGroup_scan_batch(g, Tail(documents))}

---------------------------------------------------------------------------
(* The inputs of the scan model. *)

Trigger(id) == [kind |-> "Trigger", id |-> id]
NestedThreshold(threshold) == [kind |-> "NestedThreshold", threshold |-> threshold]
Threshold(considers, requires, inverse) ==
    [considers |-> considers, requires |-> requires, inverse |-> inverse]

\* trigger A: the literal "."; trigger B: the regex `.` (any character)
TriggerA == [pattern |-> [content |-> <<".">>, kind |-> "Raw"], id |-> "A"]
TriggerB == [pattern |-> [content |-> <<".">>, kind |-> "RegEx"], id |-> "B"]

\* with <<TriggerB>> alone, a reference to "A" dangles
TriggerLists == {<<TriggerA, TriggerB>>, <<TriggerB>>}

Thresholds ==
    { Threshold(<<Trigger("B")>>, 1, FALSE),
      Threshold(<<Trigger("A"), Trigger("B")>>, 2, FALSE),
      Threshold(<<Trigger("A"), NestedThreshold(Threshold(<<Trigger("B")>>, 1, FALSE))>>,
                1, FALSE),
      Threshold(<<NestedThreshold(Threshold(<<Trigger("B")>>, 1, TRUE))>>, 1, FALSE),
      Threshold(<<Trigger("B")>>, 1, TRUE),
      Threshold(<<Trigger("A")>>, 0, FALSE) }

\* the scope pattern is the literal "a", applied to the document's url
Scopes == [pattern : {[content |-> <<"a">>, kind |-> "Raw"]}, content : {"Raw", "Text"}]

Responses == {[kind |-> "Full", include |-> <<"Url", "Excerpt">>]}

Queries ==
    [response : Responses, scope : Scopes, threshold : Thresholds,
     triggers : TriggerLists, id : {Some(<<"q">>)}]

DocumentStrings == {<<>>, <<"a">>, <<".">>}

CompiledDocuments ==
    [url : {None, Some(<<"a">>)}, raw : DocumentStrings, mime : {None},
     text : DocumentStrings, domain : {None}]

---------------------------------------------------------------------------
(* The engine's state while no engine runs (the scan model leaves it so). *)

NoBatch == 0
NoWorker == 0

\* what an interface call returned: `tag` is "none" (no call yet), "Ok", "Err",
\* "Panic", "Output", "Closed" or "Pending"; `value` is the integer returned
\* by batches_pending_processing
Returned(tag, value) == [tag |-> tag, value |-> value]

\* no call has been made
NoCall == [op |-> "none"]

CallIdle == call = NoCall /\ ret = NoCall

EngineIdle ==
    /\ threads = 0
    /\ overflow_checks = FALSE
    /\ outgoing_batches = "None"
    /\ incoming = <<>>
    /\ pending_processing = 0
    /\ poisoned = FALSE
    /\ caller = [pc |-> "idle", batch |-> NoBatch]
    /\ submitted = 0
    /\ result = Returned("none", 0)
    /\ accepted = {}
    /\ backlog = {}
    /\ delivered = <<>>
    /\ coordinator = [pc |-> "done", request |-> NoWorker, batch |-> NoBatch]
    /\ rx_requests = <<>>
    /\ rx_inputs = <<>>
    /\ worker = <<>>
    /\ ultimate = <<>>
    /\ batches = <<>>
    /\ produced = <<>>

---------------------------------------------------------------------------
(* The scan model: compile a QueryGroup (or compile one query and lift it  *)
(* into a group), scan one compiled document with the group, and scan the  *)
(* same document with every member query on its own.                       *)

Init ==
    /\ query_group \in SeqsUpTo(Queries, MaxQueries)
    /\ group = [ok |-> FALSE, value |-> NoCompiledQueryGroup]
    /\ origin = "none"
    /\ document = [some |-> FALSE, value |-> CHOOSE d \in CompiledDocuments : TRUE]
    /\ outputs = <<>>
    /\ singles = [some |-> FALSE, value |-> <<>>]
    /\ EngineIdle
    /\ CallIdle

\* QueryGroup::compile
compile ==
    /\ origin = "none"
    /\ group' = QueryGroup_compile(query_group)
    /\ origin' = "compile"
    /\ UNCHANGED <<query_group, document, outputs, singles, engine_vars, call_vars>>

\* CompiledQueryGroup::from(query) for a single compiled query, as
\* CompiledQuery::scan_concurrently builds it
from ==
    /\ origin = "none"
    /\ Len(query_group) = 1
    /\ Query_compile(query_group[1]).ok
    /\ group' = [ok |-> TRUE,
                 value |-> CompiledQueryGroup_from(Query_compile(query_group[1]).value)]
    /\ origin' = "from"
    /\ UNCHANGED <<query_group, document, outputs, singles, engine_vars, call_vars>>

\* CompiledQueryGroup::scan_single on one compiled document
group_scan_single ==
    /\ origin # "none"
    /\ group.ok
    /\ ~document.some
    /\ \E doc \in CompiledDocuments :
          \E order \in IterationOrders(queries_to_run(group.value, doc)) :
             /\ document' = Some(doc)
             /\ outputs' = CompiledQueryGroup_scan_single(group.value, doc, order)
    /\ UNCHANGED <<query_group, group, origin, singles, engine_vars, call_vars>>

\* CompiledQuery::scan_single of every member query, compiled on its own,
\* on the document the group scanned
query_scan_single ==
    /\ document.some
    /\ ~singles.some
    /\ \A i \in DOMAIN query_group : Query_compile(query_group[i]).ok
    /\ singles' = Some([i \in DOMAIN query_group |->
                          CompiledQuery_scan_single(Query_compile(query_group[i]).value,
                                                    document.value)])
    /\ UNCHANGED <<query_group, group, origin, document, outputs, engine_vars, call_vars>>

Next == compile \/ from \/ group_scan_single \/ query_scan_single

Spec == Init /\ [][Next]_vars

---------------------------------------------------------------------------
(* scan/scanner.rs: the scan engine built by scan_concurrently.            *)
(* A batch is identified by its number in submission order; the            *)
(* OutputBatch a worker emits for batch b is identified by b.  Every       *)
(* channel is an unbounded std::sync::mpsc channel: a send succeeds while  *)
(* the receiver lives, a recv returns the buffered messages first and      *)
(* fails once the buffer is empty and every sender is dropped.             *)

Workers == 1..threads

UsizeMax == 2^UsizeBits - 1

\* the coordinator thread has ended (returned or unwound), dropping
\* incoming_receiver, rx_requests, tx_requests, ultimate_transmitter and the
\* `outgoing` map of worker input senders
CoordinatorExited == coordinator.pc \in {"done", "panicked"}

\* worker w has ended: its loop broke ("done") or it unwound from a panic in
\* the loop body ("panicked"); either way its tx_request_documents, rx_inputs
\* and tx_send_output are dropped
WorkerExited(w) == worker[w].pc \in {"done", "panicked"}

\* every sender of the output channel is dropped
OutputSendersDropped ==
    CoordinatorExited /\ \A w \in Workers : WorkerExited(w)

\* the engine as scan_concurrently leaves it, whatever the group and the
\* batches the caller is going to submit
EngineStart ==
    /\ threads \in 0..MaxWorkers
    /\ overflow_checks \in BOOLEAN
    /\ outgoing_batches = "Some"
    /\ incoming = <<>>
    /\ pending_processing = 0
    /\ poisoned = FALSE
    /\ caller = [pc |-> "idle", batch |-> NoBatch]
    /\ submitted = 0
    /\ result = Returned("none", 0)
    /\ accepted = {}
    /\ backlog = {}
    /\ delivered = <<>>
    /\ coordinator = [pc |-> "recv_request", request |-> NoWorker, batch |-> NoBatch]
    /\ rx_requests = <<>>
    /\ rx_inputs = [w \in Workers |-> <<>>]
    /\ worker = [w \in Workers |-> [pc |-> "request", batch |-> NoBatch]]
    /\ ultimate = <<>>
    /\ produced = [b \in 1..MaxBatches |-> <<>>]
    /\ query_group = <<>>
    /\ document = [some |-> FALSE, value |-> CHOOSE d \in CompiledDocuments : TRUE]
    /\ outputs = <<>>
    /\ singles = [some |-> FALSE, value |-> <<>>]
    /\ CallIdle

\* the engine fed with batches that hold no document
EngineInit ==
    /\ EngineStart
    /\ batches = [b \in 1..MaxBatches |-> <<>>]
    /\ group = [ok |-> FALSE, value |-> NoCompiledQueryGroup]
    /\ origin = "none"

(* ---- AsyncScanInterface, called by the one thread that holds it ---- *)
\* process() that sends without looking at whether shutdown() took the sender
process_send_after_shutdown ==
    /\ caller.pc = "idle"
    /\ submitted < MaxBatches
    /\ submitted' = submitted + 1
    /\ IF CoordinatorExited
       THEN /\ result' = Returned("Err", 0)
            /\ UNCHANGED <<incoming, caller>>
       ELSE /\ incoming' = Append(incoming, submitted + 1)
            /\ caller' = [pc |-> "increment", batch |-> submitted + 1]
            /\ UNCHANGED result
    /\ UNCHANGED <<threads, overflow_checks, outgoing_batches, pending_processing,
                   poisoned, accepted, backlog, delivered, coordinator, rx_requests,
                   rx_inputs, worker, ultimate, scan_vars, call_vars,
                   batches, produced>>

\* process(), up to the send on outgoing_batches
process_send ==
    /\ caller.pc = "idle"
    /\ outgoing_batches = "None" \/ submitted < MaxBatches
    /\ IF outgoing_batches = "None"
       THEN /\ result' = Returned("Err", 0)
            /\ UNCHANGED <<incoming, caller, submitted>>
       ELSE /\ submitted' = submitted + 1
            /\ IF CoordinatorExited
               THEN /\ result' = Returned("Err", 0)
                    /\ UNCHANGED <<incoming, caller>>
               ELSE /\ incoming' = Append(incoming, submitted + 1)
                    /\ caller' = [pc |-> "increment", batch |-> submitted + 1]
                    /\ UNCHANGED result
    /\ UNCHANGED <<threads, overflow_checks, outgoing_batches, pending_processing,
                   poisoned, accepted, backlog, delivered, coordinator, rx_requests,
                   rx_inputs, worker, ultimate, scan_vars, call_vars,
                   batches, produced>>

\* process(), after the send: lock the counter, add one, return Ok
process_increment ==
    /\ caller.pc = "increment"
    /\ caller' = [pc |-> "idle", batch |-> NoBatch]
    /\ IF poisoned
       THEN /\ result' = Returned("Panic", 0)
            /\ UNCHANGED <<pending_processing, poisoned, accepted>>
       ELSE IF pending_processing = UsizeMax /\ overflow_checks
       THEN /\ result' = Returned("Panic", 0)
            /\ poisoned' = TRUE
            /\ UNCHANGED <<pending_processing, accepted>>
       ELSE /\ pending_processing' = (pending_processing + 1) % (UsizeMax + 1)
            /\ accepted' = accepted \cup {caller.batch}
            /\ result' = Returned("Ok", 0)
            /\ UNCHANGED poisoned
    /\ UNCHANGED <<threads, overflow_checks, outgoing_batches, incoming, submitted,
                   backlog, delivered, coordinator, rx_requests, rx_inputs, worker,
                   ultimate, scan_vars, call_vars,
                   batches, produced>>

\* lock_for_outputs(): recv on incoming_outputs
lock_for_outputs ==
    /\ caller.pc = "idle"
    /\ IF ultimate # <<>>
       THEN /\ delivered' = Append(delivered, Head(ultimate))
            /\ ultimate' = Tail(ultimate)
            /\ result' = Returned("Output", 0)
       ELSE /\ OutputSendersDropped
            /\ result' = Returned("Closed", 0)
            /\ UNCHANGED <<delivered, ultimate>>
    /\ UNCHANGED <<threads, overflow_checks, outgoing_batches, incoming,
                   pending_processing, poisoned, caller, submitted, accepted, backlog,
                   coordinator, rx_requests, rx_inputs, worker, scan_vars, call_vars,
                   batches, produced>>

\* batches_pending_processing(): lock the counter and return its value
batches_pending_processing ==
    /\ caller.pc = "idle"
    /\ result' = IF poisoned THEN Returned("Panic", 0)
                 ELSE Returned("Pending", pending_processing)
    /\ UNCHANGED <<threads, overflow_checks, outgoing_batches, incoming,
                   pending_processing, poisoned, caller, submitted, accepted, backlog,
                   delivered, coordinator, rx_requests, rx_inputs, worker, ultimate,
                   scan_vars, call_vars,
                   batches, produced>>

\* shutdown(): drop the sender of the submission channel
shutdown ==
    /\ caller.pc = "idle"
    /\ outgoing_batches' = "None"
    /\ backlog' = IF outgoing_batches = "Some" THEN Range(incoming) ELSE backlog
    /\ UNCHANGED <<threads, overflow_checks, incoming, pending_processing, poisoned,
                   caller, submitted, result, accepted, delivered, coordinator,
                   rx_requests, rx_inputs, worker, ultimate, scan_vars, call_vars,
                   batches, produced>>

(* ---- the coordinator thread ---- *)
\* a coordinator that goes on to the submission channel without a request
coordinator_recv_request_unasked ==
    /\ coordinator.pc = "recv_request"
    /\ threads >= 1
    /\ coordinator' = [coordinator EXCEPT !.pc = "recv_batch", !.request = 1]
    /\ UNCHANGED <<threads, overflow_checks, outgoing_batches, incoming,
                   pending_processing, poisoned, caller, submitted, result, accepted,
                   backlog, delivered, rx_requests, rx_inputs, worker, ultimate,
                   scan_vars, call_vars,
                   batches, produced>>

\* rx_requests.recv(): blocks while no request is buffered (the coordinator
\* holds a sender of this channel itself, so the recv never fails)
coordinator_recv_request ==
    /\ coordinator.pc = "recv_request"
    /\ rx_requests # <<>>
    /\ coordinator' = [coordinator EXCEPT !.pc = "recv_batch", !.request = Head(rx_requests)]
    /\ rx_requests' = Tail(rx_requests)
    /\ UNCHANGED <<threads, overflow_checks, outgoing_batches, incoming,
                   pending_processing, poisoned, caller, submitted, result, accepted,
                   backlog, delivered, rx_inputs, worker, ultimate, scan_vars, call_vars,
                   batches, produced>>
\* a coordinator that stops at the shutdown signal without draining the
\* submissions still buffered
coordinator_recv_batch_without_drain ==
    /\ coordinator.pc = "recv_batch"
    /\ IF outgoing_batches = "None"
       THEN /\ coordinator' = [pc |-> "done", request |-> NoWorker, batch |-> NoBatch]
            /\ rx_requests' = <<>>
            /\ incoming' = <<>>
       ELSE /\ incoming # <<>>
            /\ coordinator' = [coordinator EXCEPT !.pc = "decrement", !.batch = Head(incoming)]
            /\ incoming' = Tail(incoming)
            /\ UNCHANGED rx_requests
    /\ UNCHANGED <<threads, overflow_checks, outgoing_batches, pending_processing,
                   poisoned, caller, submitted, result, accepted, backlog, delivered,
                   rx_inputs, worker, ultimate, scan_vars, call_vars,
                   batches, produced>>

\* incoming_receiver.recv(): a buffered batch, or, once the buffer is empty
\* and the interface dropped its sender, drop(rx_requests), break and return
coordinator_recv_batch ==
    /\ coordinator.pc = "recv_batch"
    /\ IF incoming # <<>>
       THEN /\ coordinator' = [coordinator EXCEPT !.pc = "decrement", !.batch = Head(incoming)]
            /\ incoming' = Tail(incoming)
            /\ UNCHANGED rx_requests
       ELSE /\ outgoing_batches = "None"
            /\ coordinator' = [pc |-> "done", request |-> NoWorker, batch |-> NoBatch]
            /\ rx_requests' = <<>>
            /\ UNCHANGED incoming
    /\ UNCHANGED <<threads, overflow_checks, outgoing_batches, pending_processing,
                   poisoned, caller, submitted, result, accepted, backlog, delivered,
                   rx_inputs, worker, ultimate, scan_vars, call_vars,
                   batches, produced>>
\* a coordinator that leaves the counter alone when it takes a batch
coordinator_decrement_skipped ==
    /\ coordinator.pc = "decrement"
    /\ coordinator' = [coordinator EXCEPT !.pc = "route"]
    /\ UNCHANGED <<threads, overflow_checks, outgoing_batches, incoming,
                   pending_processing, poisoned, caller, submitted, result, accepted,
                   backlog, delivered, rx_requests, rx_inputs, worker, ultimate,
                   scan_vars, call_vars,
                   batches, produced>>

\* *pending_processing_cloned.lock().unwrap() -= 1: on a usize of 0 the
\* subtraction panics under the lock when overflow checks are on (the thread
\* unwinds and the mutex is poisoned) and wraps when they are off
coordinator_decrement ==
    /\ coordinator.pc = "decrement"
    /\ IF poisoned \/ (pending_processing = 0 /\ overflow_checks)
       THEN /\ coordinator' = [pc |-> "panicked", request |-> NoWorker, batch |-> NoBatch]
            /\ poisoned' = TRUE
            /\ rx_requests' = <<>>
            /\ incoming' = <<>>
            /\ UNCHANGED pending_processing
       ELSE /\ pending_processing' = (pending_processing + UsizeMax) % (UsizeMax + 1)
            /\ coordinator' = [coordinator EXCEPT !.pc = "route"]
            /\ UNCHANGED <<poisoned, rx_requests, incoming>>
    /\ UNCHANGED <<threads, overflow_checks, outgoing_batches, caller, submitted,
                   result, accepted, backlog, delivered, rx_inputs, worker, ultimate,
                   scan_vars, call_vars,
                   batches, produced>>

\* a coordinator that routes every batch to the first worker
coordinator_route_to_first ==
    /\ coordinator.pc = "route"
    /\ coordinator' = [pc |-> "recv_request", request |-> NoWorker, batch |-> NoBatch]
    /\ rx_inputs' = IF WorkerExited(1)
                    THEN rx_inputs
                    ELSE [rx_inputs EXCEPT ![1] = Append(@, coordinator.batch)]
    /\ UNCHANGED <<threads, overflow_checks, outgoing_batches, incoming,
                   pending_processing, poisoned, caller, submitted, result, accepted,
                   backlog, delivered, rx_requests, worker, ultimate, scan_vars, call_vars,
                   batches, produced>>

\* outgoing.get(&request) and channel.send(batch_to_send): the send fails,
\* and the batch is dropped, when the worker has ended
coordinator_route ==
    /\ coordinator.pc = "route"
    /\ coordinator' = [pc |-> "recv_request", request |-> NoWorker, batch |-> NoBatch]
    /\ rx_inputs' = IF WorkerExited(coordinator.request)
                    THEN rx_inputs
                    ELSE [rx_inputs EXCEPT ![coordinator.request] = Append(@, coordinator.batch)]
    /\ UNCHANGED <<threads, overflow_checks, outgoing_batches, incoming,
                   pending_processing, poisoned, caller, submitted, result, accepted,
                   backlog, delivered, rx_requests, worker, ultimate, scan_vars, call_vars,
                   batches, produced>>

(* ---- a worker thread ---- *)

\* tx_request_documents.send(id): fails, ending the thread, once the
\* coordinator dropped rx_requests
worker_request(w) ==
    /\ worker[w].pc = "request"
    /\ IF CoordinatorExited
       THEN /\ worker' = [worker EXCEPT ![w].pc = "done"]
            /\ UNCHANGED rx_requests
       ELSE /\ worker' = [worker EXCEPT ![w].pc = "recv"]
            /\ rx_requests' = Append(rx_requests, w)
    /\ UNCHANGED <<threads, overflow_checks, outgoing_batches, incoming,
                   pending_processing, poisoned, caller, submitted, result, accepted,
                   backlog, delivered, coordinator, rx_inputs, ultimate, scan_vars, call_vars,
                   batches, produced>>

\* rx_inputs.recv(): a buffered batch, or the end of the thread once the
\* buffer is empty and the coordinator dropped the sender
worker_recv(w) ==
    /\ worker[w].pc = "recv"
    /\ IF rx_inputs[w] # <<>>
       THEN /\ worker' = [worker EXCEPT ![w] = [pc |-> "scan", batch |-> Head(rx_inputs[w])]]
            /\ rx_inputs' = [rx_inputs EXCEPT ![w] = Tail(@)]
       ELSE /\ CoordinatorExited
            /\ worker' = [worker EXCEPT ![w].pc = "done"]
            /\ UNCHANGED rx_inputs
    /\ UNCHANGED <<threads, overflow_checks, outgoing_batches, incoming,
                   pending_processing, poisoned, caller, submitted, result, accepted,
                   backlog, delivered, coordinator, rx_requests, ultimate, scan_vars, call_vars,
                   batches, produced>>

\* the `documents` vector after the loop over batch.documents: a populated
\* reference gives its document, an unpopulated one the document loaded from
\* its path, or nothing when the load fails
RECURSIVE LoadedDocuments(_)
LoadedDocuments(references) ==
    IF references = <<>> THEN <<>>
    ELSE LET document_reference == Head(references)
         IN  (IF document_reference.kind = "Populated"
              THEN <<document_reference.document>>
              ELSE IF load_document(document_reference.path).ok
              THEN <<load_document(document_reference.path).value>>
              ELSE <<>>)
             \o LoadedDocuments(Tail(references))

\* a worker that gives up the batch, sending nothing, when a load fails
worker_scan_abandoning(w) ==
    /\ worker[w].pc = "scan"
    /\ LET loaded == LoadedDocuments(batches[worker[w].batch])
           compiled_batch == DocumentBatch_compile(loaded)
       IN  IF Len(loaded) < Len(batches[worker[w].batch])
           THEN UNCHANGED <<ultimate, produced>>
           ELSE \E output_batch \in CompiledQueryGroup_scan_batch(group.value,
                                                                  compiled_batch.value) :
                   /\ produced' = [produced EXCEPT ![worker[w].batch] = output_batch]
                   /\ ultimate' = Append(ultimate, worker[w].batch)
    /\ worker' = [worker EXCEPT ![w] = [pc |-> "request", batch |-> NoBatch]]
    /\ UNCHANGED <<threads, overflow_checks, outgoing_batches, incoming,
                   pending_processing, poisoned, caller, submitted, result, accepted,
                   backlog, delivered, coordinator, rx_requests, rx_inputs, scan_vars, call_vars,
                   batches>>

\* load the documents of the batch, compile them, scan_batch, then
\* tx_send_output.send(outputs)
worker_scan(w) ==
    /\ worker[w].pc = "scan"
    /\ LET compiled_batch == DocumentBatch_compile(LoadedDocuments(batches[worker[w].batch]))
       IN  \E output_batch \in CompiledQueryGroup_scan_batch(group.value,
                                                              compiled_batch.value) :
              produced' = [produced EXCEPT ![worker[w].batch] = output_batch]
    /\ ultimate' = Append(ultimate, worker[w].batch)
    /\ worker' = [worker EXCEPT ![w] = [pc |-> "request", batch |-> NoBatch]]
    /\ UNCHANGED <<threads, overflow_checks, outgoing_batches, incoming,
                   pending_processing, poisoned, caller, submitted, result, accepted,
                   backlog, delivered, coordinator, rx_requests, rx_inputs, scan_vars, call_vars,
                   batches>>

\* a panic in the loop body while the worker holds a batch (in load_document,
\* compile or scan_batch): the thread unwinds, the batch and whatever its
\* input channel buffered are dropped, no OutputBatch is sent
worker_panic(w) ==
    /\ worker[w].pc = "scan"
    /\ worker' = [worker EXCEPT ![w] = [pc |-> "panicked", batch |-> NoBatch]]
    /\ rx_inputs' = [rx_inputs EXCEPT ![w] = <<>>]
    /\ UNCHANGED <<threads, overflow_checks, outgoing_batches, incoming,
                   pending_processing, poisoned, caller, submitted, result, accepted,
                   backlog, delivered, coordinator, rx_requests, ultimate, scan_vars, call_vars,
                   batches, produced>>

CoordinatorStep ==
    \/ coordinator_recv_request
    \/ coordinator_recv_batch
    \/ coordinator_decrement
    \/ coordinator_route

WorkerStep(w) == worker_request(w) \/ worker_recv(w) \/ worker_scan(w)

EngineNext ==
    \/ process_send
    \/ process_increment
    \/ lock_for_outputs
    \/ batches_pending_processing
    \/ shutdown
    \/ CoordinatorStep
    \/ \E w \in Workers : WorkerStep(w)

EngineSpec == EngineInit /\ [][EngineNext]_vars

\* Threads that can run do run, a call of process() that has sent runs to its
\* end, and the caller keeps calling lock_for_outputs.
EngineFairness ==
    /\ WF_vars(CoordinatorStep)
    /\ \A w \in 1..MaxWorkers : WF_vars(w \in Workers /\ WorkerStep(w))
    /\ WF_vars(process_increment)
    /\ WF_vars(lock_for_outputs)

FairEngineSpec == EngineSpec /\ EngineFairness

\* the engine with workers that may panic while they process a batch
PanicEngineNext == EngineNext \/ \E w \in Workers : worker_panic(w)

PanicEngineSpec == EngineInit /\ [][PanicEngineNext]_vars

---------------------------------------------------------------------------
(* Single calls: one function of the library applied once to an input      *)
(* drawn from a bounded set.  `call` records the function and its          *)
(* arguments, `ret` what it returned.                                      *)

\* most considerations of one threshold
MaxConsiders == 2
\* most items of the `include` of one Response
MaxInclude == 2

TriggerIds == {"A", "B"}

\* the HashMap<&String, bool> handed to evaluate: every map from some of the
\* trigger ids to whether the trigger hit
ResultMaps == UNION {[ids -> BOOLEAN] : ids \in SUBSET TriggerIds}

TriggerRefs == {Trigger(id) : id \in TriggerIds}

\* thresholds of at most one consideration over triggers
LeafThresholds ==
    [considers : SeqsUpTo(TriggerRefs, 1), requires : 0..1, inverse : BOOLEAN]

\* the thresholds that occur nested: the leaves, and two that nest a leaf
InnerThresholds ==
    LeafThresholds
    \cup {Threshold(<<NestedThreshold(Threshold(<<Trigger("A")>>, 1, inverse))>>, 1, FALSE) :
            inverse \in BOOLEAN}

Considerations == TriggerRefs \cup {NestedThreshold(t) : t \in InnerThresholds}

EvalThresholds ==
    [considers : SeqsUpTo(Considerations, MaxConsiders),
     requires : 0..(MaxConsiders + 1),
     inverse : BOOLEAN]

\* the trigger lists of the queries scanned and validated on their own
CallTriggerLists == {<<>>, <<TriggerA>>, <<TriggerB>>, <<TriggerA, TriggerB>>}

\* their thresholds: at most one consideration (a trigger, or a nested
\* threshold of depth one or two), or the two triggers together
CallThresholds ==
    [considers : SeqsUpTo(Considerations, 1), requires : 0..1, inverse : BOOLEAN]
    \cup [considers : {<<Trigger("A"), Trigger("B")>>}, requires : 1..2, inverse : BOOLEAN]

CallQueries ==
    [response : Responses, scope : Scopes, threshold : CallThresholds,
     triggers : CallTriggerLists, id : {Some(<<"q">>)}]

\* the queries scanned as a group of two: "p" comes first, "q" second; the
\* scope pattern is the literal "a" or the empty regex, which matches every
\* url, the missing one included
GroupScopes ==
    [pattern : {[content |-> <<"a">>, kind |-> "Raw"], [content |-> <<>>, kind |-> "RegEx"]},
     content : {"Raw", "Text"}]

GroupThresholds ==
    { Threshold(<<Trigger("A")>>, 1, FALSE),
      Threshold(<<Trigger("A"), Trigger("B")>>, 1, FALSE),
      Threshold(<<Trigger("B")>>, 1, TRUE),
      Threshold(<<NestedThreshold(Threshold(<<Trigger("B")>>, 1, TRUE))>>, 1, FALSE),
      Threshold(<<Trigger("A")>>, 0, FALSE) }

GroupQueries(id) ==
    [response : Responses, scope : GroupScopes, threshold : GroupThresholds,
     triggers : {<<TriggerA, TriggerB>>}, id : {Some(<<id>>)}]

CallGroups == {<<p, q>> : p \in GroupQueries("p"), q \in GroupQueries("q")}

ResponseItems == {"Url", "Mime", "Domain", "Excerpt", "FullContent"}

CallResponses ==
    [kind : {"Full", "Partial"}, include : SeqsUpTo(ResponseItems, MaxInclude)]

\* a second trigger with the id "A", and a trigger and a scope whose regex
\* (an unclosed group) does not compile
TriggerA2 == [pattern |-> [content |-> <<"a">>, kind |-> "Raw"], id |-> "A"]
TriggerBad == [pattern |-> [content |-> <<"(">>, kind |-> "RegEx"], id |-> "B"]
ScopeBad == [pattern |-> [content |-> <<"(">>, kind |-> "RegEx"], content |-> "Text"]

\* the queries handed to validate
ValidateQueries ==
    [response : {[kind |-> "Full", include |-> <<"Url", "Excerpt">>],
                 [kind |-> "Partial", include |-> <<"Url">>],
                 [kind |-> "Partial", include |-> <<"Mime">>],
                 [kind |-> "Partial", include |-> <<>>]},
     scope : Scopes \cup {ScopeBad},
     threshold : CallThresholds,
     triggers : CallTriggerLists
                \cup {<<TriggerBad>>, <<TriggerA, TriggerBad>>, <<TriggerA, TriggerA2>>},
     id : {Some(<<"q">>)}]

\* a trigger whose pattern compiles to five instructions: two of them
\* together are more than RegexSet::new accepts
TriggerLong ==
    [pattern |-> [content |-> <<"a", "a", "a", "a", "a">>, kind |-> "RegEx"], id |-> "A"]

\* the member queries of the groups handed to compile: prefiltered
\* (threshold not inverse, scope on Text) or always-run, compiling or not
CompileQueries ==
    [response : Responses,
     scope : {[pattern |-> [content |-> <<"a">>, kind |-> "Raw"], content |-> "Text"],
              ScopeBad},
     threshold : {Threshold(<<Trigger("A")>>, 1, inverse) : inverse \in BOOLEAN},
     triggers : {<<TriggerA>>, <<TriggerA, TriggerBad>>, <<TriggerLong>>},
     id : {Some(<<"q">>)}]

\* the queries and compiled documents whose Outputs are looked into: every
\* response, either scope content, a threshold that needs trigger B and one
\* that needs nothing; documents with or without url, mime and domain, whose
\* text may differ from raw
OutputQueries ==
    [response : CallResponses, scope : Scopes,
     threshold : {Threshold(<<Trigger("B")>>, 1, FALSE), Threshold(<<Trigger("A")>>, 0, FALSE)},
     triggers : {<<TriggerA, TriggerB>>}, id : {None, Some(<<"q">>)}]

OutputDocuments ==
    [url : {None, Some(<<"a">>)}, raw : {<<"a">>, <<".">>}, mime : {None, Some(<<"m">>)},
     text : {<<>>, <<".">>}, domain : {None, Some(<<"d">>)}]

\* most bytes of the `data` of a Document
MaxData == 3

Bytes == {"a", "<", ">", " ", InvalidByte}

\* the `data` of the Documents compiled: every byte string up to MaxData,
\* and strings that hold an HTML entity, a known one and an unfinished one
DocumentData ==
    SeqsUpTo(Bytes, MaxData)
    \cup {<<"&", "l", "t", ";">>, <<"<", "a", ">", "&", "l", "t", ";">>, <<"&", "a">>}

\* no url, relative paths that end with ".html", hold it or lack it, and
\* an absolute url
DocumentUrls ==
    {None, Some(<<"a">>), Some(DotHtml), Some(<<"a">> \o DotHtml), Some(DotHtml \o <<"a">>),
     Some(<<"s", ":", "/", "/", "d", "/", "a">> \o DotHtml)}

DocumentMimes == {None, Some(TextHtml), Some(<<"t", "e", "x", "t">>)}

Documents == [url : DocumentUrls, data : DocumentData, mime : DocumentMimes]

ScanIdle ==
    /\ query_group = <<>>
    /\ group = [ok |-> FALSE, value |-> NoCompiledQueryGroup]
    /\ origin = "none"
    /\ document = [some |-> FALSE, value |-> CHOOSE d \in CompiledDocuments : TRUE]
    /\ outputs = <<>>
    /\ singles = [some |-> FALSE, value |-> <<>>]

CallInit == ScanIdle /\ EngineIdle /\ CallIdle

\* Threshold::evaluate
evaluate ==
    /\ call = NoCall
    /\ \E threshold \in EvalThresholds, triggers \in ResultMaps :
          /\ call' = [op |-> "evaluate", threshold |-> threshold, triggers |-> triggers]
          /\ ret' = Threshold_evaluate(threshold, triggers)
    /\ UNCHANGED <<scan_vars, engine_vars>>

\* Query::compile, then CompiledQuery::scan_single on one compiled document
scan_single ==
    /\ call = NoCall
    /\ \E input \in (CallQueries \X CompiledDocuments)
                    \cup (OutputQueries \X OutputDocuments) :
          LET query == input[1]
              doc == input[2]
          IN
          /\ Query_compile(query).ok
          /\ call' = [op |-> "scan_single", query |-> query, document |-> doc]
          /\ ret' = CompiledQuery_scan_single(Query_compile(query).value, doc)
    /\ UNCHANGED <<scan_vars, engine_vars>>

\* CompiledQueryGroup::scan_single of the group that compile just returned,
\* on one compiled document, with the HashSet queries_to_run iterated in
\* some order
scan_group ==
    /\ call.op = "group_compile"
    /\ call.queries \in CallGroups
    /\ ret.ok
    /\ \E doc \in CompiledDocuments :
          \E order \in IterationOrders(queries_to_run(ret.value, doc)) :
             /\ call' = [op |-> "scan_group", queries |-> call.queries,
                         group |-> ret.value, document |-> doc]
             /\ ret' = CompiledQueryGroup_scan_single(ret.value, doc, order)
    /\ UNCHANGED <<scan_vars, engine_vars>>

\* QueryGroup::compile
group_compile ==
    /\ call = NoCall
    /\ \E queries \in SeqsUpTo(CompileQueries, MaxQueries) \cup CallGroups :
          /\ call' = [op |-> "group_compile", queries |-> queries]
          /\ ret' = QueryGroup_compile(queries)
    /\ UNCHANGED <<scan_vars, engine_vars>>

\* Document::compile
document_compile ==
    /\ call = NoCall
    /\ \E doc \in Documents :
          /\ call' = [op |-> "document_compile", document |-> doc]
          /\ ret' = Document_compile(doc)
    /\ UNCHANGED <<scan_vars, engine_vars>>

\* Response::validate
response_validate ==
    /\ call = NoCall
    /\ \E response \in CallResponses :
          /\ call' = [op |-> "response_validate", response |-> response]
          /\ ret' = Response_validate(response)
    /\ UNCHANGED <<scan_vars, engine_vars>>

\* Query::validate
validate ==
    /\ call = NoCall
    /\ \E query \in ValidateQueries :
          /\ call' = [op |-> "validate", query |-> query]
          /\ ret' = Query_validate(query)
    /\ UNCHANGED <<scan_vars, engine_vars>>

CallNext ==
    \/ evaluate
    \/ group_compile
    \/ response_validate
    \/ validate
    \/ scan_single
    \/ scan_group
    \/ document_compile

CallSpec == CallInit /\ [][CallNext]_vars

---------------------------------------------------------------------------
(* The scan engine of a compiled group, fed with batches that hold         *)
(* documents (BatchEngineSpec).                                            *)

\* the batches submitted: batch b holds one document reference for every
\* entry of `shape`, to a document of its own (its url or path names the
\* batch and the position): a populated reference, an unpopulated reference
\* to a file that loads, or one to a path where there is no file
DocumentReference(b, i, kind) ==
    IF kind = "Populated"
    THEN [kind |-> "Populated",
          document |-> [url |-> Some(<<"a", ToString(b), ToString(i)>>),
                        data |-> <<"a">>, mime |-> None],
          path |-> <<>>]
    ELSE [kind |-> "Unpopulated",
          document |-> NoDocument,
          path |-> <<(IF kind = "Loadable" THEN "f" ELSE "m"), ToString(b), ToString(i)>>]

BatchShapes ==
    { <<"Missing">>,
      <<"Populated", "Missing", "Loadable">> }

\* the queries of the group the engine runs: p is prefiltered and matches
\* every url, q is always-run and matches the urls that hold "a"
EngineQueryP ==
    [response |-> [kind |-> "Full", include |-> <<"Url", "Excerpt">>],
     scope |-> [pattern |-> [content |-> <<>>, kind |-> "RegEx"], content |-> "Text"],
     threshold |-> Threshold(<<Trigger("A")>>, 1, FALSE),
     triggers |-> <<TriggerA2>>,
     id |-> Some(<<"p">>)]

EngineQueryQ ==
    [response |-> [kind |-> "Full", include |-> <<"Url", "Excerpt">>],
     scope |-> [pattern |-> [content |-> <<"a">>, kind |-> "Raw"], content |-> "Raw"],
     threshold |-> Threshold(<<Trigger("A")>>, 0, FALSE),
     triggers |-> <<TriggerA2>>,
     id |-> Some(<<"q">>)]

EngineGroups == {<<EngineQueryP, EngineQueryQ>>}

\* the engine of a compiled group, fed with batches that hold documents
BatchEngineInit ==
    /\ EngineStart
    /\ threads >= 1
    /\ \E shape \in BatchShapes :
          batches = [b \in 1..MaxBatches |->
                        [i \in DOMAIN shape |-> DocumentReference(b, i, shape[i])]]
    /\ \E queries \in EngineGroups : group = QueryGroup_compile(queries)
    /\ origin = "compile"

BatchEngineSpec == BatchEngineInit /\ [][EngineNext]_vars

---------------------------------------------------------------------------
(* Claims about the scan model (checked under Spec). *)

Scanned == origin = "compile" /\ group.ok /\ document.some

\* every threshold of the tree rooted at `threshold`
RECURSIVE ThresholdNodes(_)
ThresholdNodes(threshold) ==
    {threshold} \cup
    UNION {ThresholdNodes(threshold.considers[i].threshold) :
              i \in {k \in DOMAIN threshold.considers : IsNested(threshold.considers[k])}}

\* inverse = true or requires = 0 at the top level or in a nested threshold
Tainted(threshold) ==
    \E node \in ThresholdNodes(threshold) : node.inverse \/ node.requires = 0

CompiledOf(queries) == [i \in DOMAIN queries |-> Query_compile(queries[i]).value]

\* C1 (group equivalence): when QueryGroup.compile succeeded, the multiset of
\* outputs of the group's scan_single on a document equals the multiset of the
\* outputs of every member query's own scan_single on it, concatenated.
C1_GroupEquivalence ==
    (Scanned /\ singles.some) => BagOf(outputs) = BagOf(Flatten(singles.value))

\* a prefiltered query and an always-run query both produced an output
C1_Witness ==
    /\ Scanned /\ singles.some
    /\ Len(group.value.queries) = 1 /\ Len(group.value.always_run_queries) = 1
    /\ Len(outputs) = 2

\* C2 (single-query lift): scanning a document with CompiledQueryGroup::from(q)
\* returns exactly the outputs of q.scan_single on that document.
C2_SingleQueryLift ==
    (origin = "from" /\ document.some /\ singles.some) => outputs = singles.value[1]

\* no pattern of the query occurs in the content its scope selects
NoTriggerOccurs(query, doc) ==
    \A i \in DOMAIN query.triggers :
        ~Regex_is_match(Pattern_compile(query.triggers[i].pattern).regex,
                        CompiledDocument_content(doc, query.scope.content))

\* C3 (prefilter soundness): a query whose threshold has inverse = false and
\* requires >= 1 at every nesting level returns no output from scan_single on a
\* document in which none of its trigger patterns occurs.
C3_PrefilterSoundness ==
    singles.some =>
        \A i \in DOMAIN query_group :
            (~Tainted(query_group[i].threshold)
               /\ NoTriggerOccurs(query_group[i], document.value))
            => singles.value[i] = <<>>

\* such a query was scanned on such a document, its scope matching the url and
\* every reference of its threshold resolving
C3_Witness ==
    /\ singles.some
    /\ \E i \in DOMAIN query_group :
          /\ ~Tainted(query_group[i].threshold)
          /\ NoTriggerOccurs(query_group[i], document.value)
          /\ document.value.url = Some(<<"a">>)
          /\ query_group[i].triggers = <<TriggerA, TriggerB>>

ExpectedAlwaysRun(query) ==
    Tainted(query.threshold) \/ query.scope.content # "Text"

ExpectedPrefiltered(query) == ~ExpectedAlwaysRun(query)

OrderedOutputs(g, doc, order) ==
    Flatten([k \in DOMAIN order |-> CompiledQuery_scan_single(g.queries[order[k] + 1], doc)])
    \o Flatten([k \in DOMAIN g.always_run_queries |->
                  CompiledQuery_scan_single(g.always_run_queries[k], doc)])

\* the candidate indices in ascending order
Ascending(S) ==
    CHOOSE o \in IterationOrders(S) : \A i, j \in DOMAIN o : i < j => o[i] < o[j]

\* C5 as stated (output order): candidate outputs first, in ascending order of
\* the query's index in g.queries, then the always-run outputs in list order.
C5_AscendingOrder ==
    Scanned =>
        outputs = OrderedOutputs(group.value, document.value,
                                 Ascending(queries_to_run(group.value, document.value)))

\* C5 as amended: candidate outputs first, one candidate after the other in
\* some order of the candidate indices, then the always-run outputs in the
\* order of g.always_run_queries.
C5_CandidatesFirst ==
    Scanned =>
        \E order \in IterationOrders(queries_to_run(group.value, document.value)) :
            outputs = OrderedOutputs(group.value, document.value, order)

\* a candidate's output is followed by an always-run query's output
C5_Witness ==
    /\ Scanned
    /\ Len(outputs) = 2
    /\ Len(group.value.queries) = 1
    /\ outputs[1] = CompiledQuery_scan_single(group.value.queries[1], document.value)[1]
    /\ outputs[1] # outputs[2]

---------------------------------------------------------------------------
(* Claims about the scan engine (checked under EngineSpec, the liveness    *)
(* claims under FairEngineSpec).                                           *)

EngineStep == CoordinatorStep \/ \E w \in Workers : WorkerStep(w)

Occurrences(seq, b) == Cardinality({i \in DOMAIN seq : seq[i] = b})

\* the coordinator has taken b off the submission channel and not routed it
CoordinatorHolds(b) ==
    coordinator.pc \in {"decrement", "route"} /\ coordinator.batch = b

\* the number of places that hold batch b or the OutputBatch made from it
Copies(b) ==
    Occurrences(incoming, b)
    + (IF CoordinatorHolds(b) THEN 1 ELSE 0)
    + Cardinality({w \in Workers : Occurrences(rx_inputs[w], b) > 0})
    + Cardinality({w \in Workers : worker[w].pc = "scan" /\ worker[w].batch = b})
    + Occurrences(ultimate, b)
    + Occurrences(delivered, b)

\* the OutputBatch of b has been emitted on the output channel
Emitted(b) == b \in Range(ultimate) \cup Range(delivered)

\* batches process() accepted that no worker input channel has been given
Unrouted == {b \in accepted : b \in Range(incoming) \/ CoordinatorHolds(b)}

\* batches process() accepted that the coordinator has not yet counted down
Untaken ==
    {b \in accepted : b \in Range(incoming)
                      \/ (coordinator.pc = "decrement" /\ coordinator.batch = b)}

\* C6: once shutdown() has been called and the caller is back in its
\* lock_for_outputs loop, the engine never comes to rest with that call
\* blocked: a coordinator or worker step is possible, or lock_for_outputs
\* returns (an output, or closed), whatever the worker count.
C6_ShutdownTerminates ==
    (outgoing_batches = "None" /\ caller.pc = "idle")
        => (ENABLED EngineStep \/ ENABLED lock_for_outputs)

\* C7: with at least one worker, a batch for which process() returned Ok is
\* at every moment held in exactly one place (never dropped, never given to two
\* workers) and its OutputBatch is eventually returned by lock_for_outputs,
\* also when shutdown() came while the batch was still in the submission
\* channel.
C7_NoAcceptedBatchLost ==
    /\ [](\A b \in 1..MaxBatches :
            (threads >= 1 /\ b \in accepted) => Copies(b) = 1)
    /\ \A b \in 1..MaxBatches :
            (threads >= 1 /\ b \in accepted) ~> (Occurrences(delivered, b) = 1)

C7_Witness ==
    /\ threads >= 1
    /\ backlog # {}
    /\ backlog \subseteq accepted
    /\ \A b \in backlog : Occurrences(delivered, b) = 1
    /\ result = Returned("Closed", 0)

\* C8: a process() call made after shutdown() returns Err, puts nothing on
\* the submission channel and leaves the counter and the set of accepted
\* batches as they were.
C8_SubmitAfterShutdown ==
    [][(outgoing_batches = "None" /\ process_send)
          => /\ result' = Returned("Err", 0)
             /\ UNCHANGED <<incoming, pending_processing, accepted, caller>>]_vars

C8_Witness ==
    /\ outgoing_batches = "None"
    /\ ~CoordinatorExited
    /\ result = Returned("Err", 0)
    /\ accepted # {}
    /\ submitted < MaxBatches

\* C9 as stated: the batches accepted but not yet routed to a worker never
\* outnumber the workers.
C9_Backpressure == Cardinality(Unrouted) <= threads

\* C9 amended: process() never blocks (the submission channel is unbounded),
\* the coordinator takes a submission only while it holds the request of a
\* worker that waits with an empty input channel, and so it is the batches
\* handed to workers, at most one per worker, that the workers bound.
C9_PullBasedRouting ==
    /\ (caller.pc = "idle" /\ submitted < MaxBatches) => ENABLED process_send
    /\ coordinator.pc \in {"recv_batch", "decrement", "route"}
          => /\ coordinator.request \in Workers
             /\ worker[coordinator.request].pc = "recv"
             /\ rx_inputs[coordinator.request] = <<>>
    /\ \A w \in Workers :
          Len(rx_inputs[w]) + (IF worker[w].pc = "scan" THEN 1 ELSE 0) <= 1

C9_Witness ==
    /\ threads >= 1
    /\ caller.pc = "idle"
    /\ result = Returned("Ok", 0)
    /\ Cardinality(Unrouted) > threads

\* C10 as stated: batches_pending_processing returns the number of accepted
\* batches whose OutputBatch has not yet been emitted on the output channel.
C10_PendingUntilProcessed ==
    (caller.pc = "idle" /\ ~poisoned)
        => pending_processing = Cardinality({b \in accepted : ~Emitted(b)})

\* C10 amended: whenever batches_pending_processing returns, it returns the
\* number of accepted batches that the coordinator has not yet counted down,
\* which it does on taking a batch off the submission channel, before routing.
C10_PendingUntilTaken ==
    (caller.pc = "idle" /\ ~poisoned)
        => pending_processing = Cardinality(Untaken)

C10_Witness ==
    /\ caller.pc = "idle"
    /\ result = Returned("Pending", 0)
    /\ pending_processing = 0
    /\ \E w \in Workers : worker[w].pc = "scan" /\ worker[w].batch \in accepted

\* C11: once a worker has panicked and shutdown() has been called, the engine
\* never comes to rest with the caller's lock_for_outputs blocked: a
\* coordinator or worker step is possible, or lock_for_outputs returns (an
\* output, or closed), however many of the workers have died.
C11_WorkerFailureIsolation ==
    (/\ \E w \in Workers : worker[w].pc = "panicked"
     /\ outgoing_batches = "None"
     /\ caller.pc = "idle")
        => (ENABLED EngineStep \/ ENABLED lock_for_outputs)

---------------------------------------------------------------------------
(* Claims about single calls (checked under CallSpec). *)

\* the trigger ids a threshold references, at any depth
RECURSIVE ReferencedIds(_)
ReferencedIds(threshold) ==
    UNION {IF IsNested(threshold.considers[i])
           THEN ReferencedIds(threshold.considers[i].threshold)
           ELSE {threshold.considers[i].id} : i \in DOMAIN threshold.considers}

Resolves(triggers, threshold) == ReferencedIds(threshold) \subseteq DOMAIN triggers

\* whether a threshold holds by the counting rule: the number of its
\* considerations that hold reaches `requires`, the result XOR `inverse`
RECURSIVE Holds(_, _)
Holds(threshold, triggers) ==
    LET considers == threshold.considers
        true == {i \in DOMAIN considers :
                    IF IsNested(considers[i])
                    THEN Holds(considers[i].threshold, triggers)
                    ELSE triggers[considers[i].id]}
    IN  (Cardinality(true) >= threshold.requires) # threshold.inverse

RECURSIVE Depth(_)
Depth(threshold) ==
    LET nested == {i \in DOMAIN threshold.considers : IsNested(threshold.considers[i])}
    IN  IF nested = {} THEN 1
        ELSE 1 + Depth(threshold.considers[CHOOSE i \in nested :
                          \A j \in nested : Depth(threshold.considers[j].threshold)
                                             <= Depth(threshold.considers[i].threshold)].threshold)

Evaluated == call.op = "evaluate"

\* C12: on a map that holds every trigger id the threshold references,
\* evaluate returns Ok(b) with b = (count of true considerations >= requires)
\* XOR inverse, nested thresholds counted by the same rule.
C12_ThresholdSemantics ==
    (Evaluated /\ Resolves(call.triggers, call.threshold))
        => ret = [ok |-> TRUE, value |-> Holds(call.threshold, call.triggers)]

C12_Witness ==
    /\ Evaluated
    /\ Resolves(call.triggers, call.threshold)
    /\ Depth(call.threshold) = 3
    /\ Len(call.threshold.considers) = 2
    /\ call.threshold.requires = 2
    /\ call.threshold.inverse
    /\ ret = [ok |-> TRUE, value |-> FALSE]

\* t with only its top-level inverse flag flipped
Flipped(threshold) == [threshold EXCEPT !.inverse = ~@]

\* C13: on a map that resolves every referenced id, evaluate(t) and
\* evaluate(t with its top-level inverse flipped) both return Ok, with
\* opposite values.
C13_InversionFlip ==
    (Evaluated /\ Resolves(call.triggers, call.threshold))
        => LET flipped == Threshold_evaluate(Flipped(call.threshold), call.triggers)
           IN  ret.ok /\ flipped.ok /\ ret.value = ~flipped.value

C13_Witness ==
    /\ Evaluated
    /\ Resolves(call.triggers, call.threshold)
    /\ call.threshold.inverse
    /\ \E i \in DOMAIN call.threshold.considers :
          /\ IsNested(call.threshold.considers[i])
          /\ call.threshold.considers[i].threshold.inverse
    /\ ret = [ok |-> TRUE, value |-> TRUE]

ScannedSingle == call.op = "scan_single"

TriggerIdsOf(query) == {query.triggers[i].id : i \in DOMAIN query.triggers}

\* the query's threshold references, at some depth, an id none of its
\* triggers has
Dangling(query) == ~(ReferencedIds(query.threshold) \subseteq TriggerIdsOf(query))

\* the url handed to the scope pattern
UrlOf(doc) == IF doc.url.some THEN doc.url.value ELSE <<>>

ScopeMatches(query, doc) ==
    Regex_is_match(Pattern_compile(query.scope.pattern).regex, UrlOf(doc))

\* some trigger of the query occurs in the content the query reads
SomeTriggerHits(query, doc) ==
    \E i \in DOMAIN query.triggers :
        Regex_is_match(Pattern_compile(query.triggers[i].pattern).regex,
                       CompiledDocument_content(doc, query.scope.content))

\* C14: evaluate returns Err on a map that lacks an id the threshold
\* references at any depth, and scan_single of a query whose threshold
\* references an id none of its triggers has returns the empty OutputBatch
\* (no error reaches the caller), whatever the document, the inverse flags,
\* the requires values and the triggers that hit.
C14_DanglingReference ==
    /\ (Evaluated /\ ~Resolves(call.triggers, call.threshold)) => ~ret.ok
    /\ (ScannedSingle /\ Dangling(call.query)) => ret = <<>>

C14_Witness ==
    /\ ScannedSingle
    /\ Dangling(call.query)
    /\ call.query.threshold.considers # <<>>
    /\ \A i \in DOMAIN call.query.threshold.considers :
          IsNested(call.query.threshold.considers[i])
    /\ call.query.threshold.inverse
    /\ ScopeMatches(call.query, call.document)
    /\ SomeTriggerHits(call.query, call.document)
    /\ ret = <<>>

ScannedGroup == call.op = "scan_group"

\* the Outputs of a batch made for the query with this id
OutputsFor(batch, id) == {i \in DOMAIN batch : batch[i].query_id = id}

\* the threshold holds when no trigger hits
HoldsUnhit(query) ==
    Holds(query.threshold, [id \in TriggerIdsOf(query) |-> FALSE])

\* C15: a query whose scope pattern does not match the document's url (the
\* empty string when there is none) yields no Output for that document, from
\* its own scan_single and from the scan of a group it belongs to, whatever
\* its triggers and threshold.
C15_ScopeGate ==
    /\ (ScannedSingle /\ ~ScopeMatches(call.query, call.document)) => ret = <<>>
    /\ ScannedGroup =>
          \A i \in DOMAIN call.queries :
              ~ScopeMatches(call.queries[i], call.document)
                  => OutputsFor(ret, call.queries[i].id) = {}

C15_Witness ==
    /\ ScannedGroup
    /\ ~call.document.url.some
    /\ ~ScopeMatches(call.queries[1], call.document)
    /\ HoldsUnhit(call.queries[1])
    /\ ScopeMatches(call.queries[2], call.document)
    /\ OutputsFor(ret, call.queries[1].id) = {}
    /\ OutputsFor(ret, call.queries[2].id) # {}

\* the patterns of prefiltered query k (0-based) that fired in the shared
\* matcher
FiredFor(g, doc, k) ==
    {m \in GroupMatches(g, doc) :
        m < Len(g.regex_collected_query_index) /\ g.regex_collected_query_index[m + 1] = k}

\* C19: the OutputBatch of a group's scan_single holds at most one Output
\* for each query of the group, also when several patterns of one query fire
\* in the shared matcher, and so at most |queries| + |always_run_queries|
\* Outputs in all.
C19_OneOutputPerQuery ==
    ScannedGroup =>
        LET g == call.group
        IN  /\ \A i \in DOMAIN call.queries :
                  Cardinality(OutputsFor(ret, call.queries[i].id)) <= 1
            /\ Len(ret) <= Len(g.queries) + Len(g.always_run_queries)

C19_Witness ==
    /\ ScannedGroup
    /\ LET g == call.group
       IN  /\ Len(g.queries) = 2
           /\ Cardinality(FiredFor(g, call.document, 0)) = 2
           /\ Cardinality(FiredFor(g, call.document, 1)) = 2
    /\ Len(ret) = 2
    /\ \A i \in DOMAIN call.queries :
          Cardinality(OutputsFor(ret, call.queries[i].id)) = 1

Validated == call.op = "validate"

\* the Error issues of an Option<Vec<Issue>>
ErrorsOf(issues) ==
    IF issues.some
    THEN {i \in DOMAIN issues.value : issues.value[i].severity = "Error"}
    ELSE {}

\* the response is Partial and includes Excerpt or Url
DisallowedResponse(response) ==
    response.kind = "Partial" /\ Range(response.include) \cap {"Excerpt", "Url"} # {}

\* C16 as stated: compile succeeds exactly when validate reports no Error.
C16_ValidateCompileAgreement ==
    Validated => (Query_compile(call.query).ok <=> ErrorsOf(ret) = {})

\* C16 amended: validate reports an Error exactly when compile fails, or the
\* response is Partial and includes Excerpt or Url, or the threshold
\* references a trigger id that no trigger of the query has; so a query that
\* does not compile always has an Error, while a query with an Error may
\* compile.
C16_CompileFailureReported ==
    Validated =>
        /\ ErrorsOf(ret) # {} <=> \/ ~Query_compile(call.query).ok
                                  \/ DisallowedResponse(call.query.response)
                                  \/ Dangling(call.query)
        /\ ~Query_compile(call.query).ok => ErrorsOf(ret) # {}

C16_Witness ==
    /\ Validated
    /\ Query_compile(call.query).ok
    /\ ~DisallowedResponse(call.query.response)
    /\ Dangling(call.query)
    /\ ErrorsOf(ret) # {}

DuplicateTriggerIds(query) ==
    \E i, j \in DOMAIN query.triggers : i # j /\ query.triggers[i].id = query.triggers[j].id

\* C17: validate reports an Error for a query in which two triggers have the
\* same id.
C17_DuplicateTriggerIds ==
    (Validated /\ DuplicateTriggerIds(call.query)) => ErrorsOf(ret) # {}

ResponseValidated == call.op = "response_validate"

\* the positions of `include` that hold Excerpt or Url
DisallowedOccurrences(response) ==
    {i \in DOMAIN response.include : response.include[i] \in {"Excerpt", "Url"}}

\* C20: Response.validate returns, for a Partial response, one Error for
\* each occurrence of Excerpt or Url in `include` and nothing else, and
\* returns None for a Full response and for a Partial response that includes
\* neither.
C20_PartialResponse ==
    ResponseValidated =>
        LET occurrences == DisallowedOccurrences(call.response)
        IN  IF call.response.kind = "Partial" /\ occurrences # {}
            THEN /\ ret.some
                 /\ Len(ret.value) = Cardinality(occurrences)
                 /\ ErrorsOf(ret) = DOMAIN ret.value
                 /\ \A item \in {"Excerpt", "Url"} :
                       Cardinality({i \in DOMAIN ret.value : ret.value[i].about = item})
                       = Cardinality({i \in occurrences : call.response.include[i] = item})
            ELSE ret = None

C20_Witness ==
    /\ ResponseValidated
    /\ call.response.kind = "Partial"
    /\ call.response.include = <<"Url", "Url">>
    /\ ret.some
    /\ Len(ret.value) = 2

GroupCompiled == call.op = "group_compile"

EveryMemberCompiles(queries) == \A i \in DOMAIN queries : Query_compile(queries[i]).ok

\* the member is placed in `queries` and its patterns go to the set matcher
Prefiltered(query) ==
    ~recursively_analyze_threshold(query.threshold).is_always
    /\ query.scope.content = optimized_content

\* the instructions the set matcher needs for the patterns of the
\* prefiltered members
RECURSIVE SetMatcherSize(_)
SetMatcherSize(queries) ==
    IF queries = <<>> THEN 0
    ELSE (IF Prefiltered(Head(queries))
          THEN LET relevant == recursively_analyze_threshold(
                                   Head(queries).threshold).relevant_triggers
                   patterns == SubRegexesOf(Head(queries).triggers, relevant)
               IN  ProgramSize([i \in DOMAIN patterns |-> Regex_parse(patterns[i]).prog])
          ELSE 0)
         + SetMatcherSize(Tail(queries))

\* C18 as stated: compile returns a group exactly when every member query
\* compiles.
C18_AllOrNothing ==
    GroupCompiled => (ret.ok <=> EveryMemberCompiles(call.queries))

\* C18 amended: when a member query does not compile, compile returns an
\* error and no group, wherever the member stands and whichever list it
\* would have gone to; when every member compiles, compile returns a group
\* exactly when the set matcher built from the prefiltered members' patterns
\* compiles too (it fits the size limit).
C18_MemberFailureRejectsGroup ==
    GroupCompiled =>
        /\ ~EveryMemberCompiles(call.queries)
              => ret = [ok |-> FALSE, value |-> NoCompiledQueryGroup]
        /\ EveryMemberCompiles(call.queries)
              => (ret.ok <=> SetMatcherSize(call.queries) <= SizeLimit)
        /\ ret.ok => Len(ret.value.queries) + Len(ret.value.always_run_queries)
                     = Len(call.queries)

C18_Witness ==
    /\ GroupCompiled
    /\ Len(call.queries) = 2
    /\ Query_compile(call.queries[1]).ok
    /\ Prefiltered(call.queries[1])
    /\ ~Query_compile(call.queries[2]).ok
    /\ ~Prefiltered(call.queries[2])
    /\ ret = [ok |-> FALSE, value |-> NoCompiledQueryGroup]

\* the PatternMatches scan_single collects: for every trigger, in the order
\* of the query's triggers, that occurs in the content the scope selects, the
\* content and the place of the leftmost occurrence
RECURSIVE CollectedMatches(_, _)
CollectedMatches(triggers, content) ==
    IF triggers = <<>> THEN <<>>
    ELSE LET regex == Pattern_compile(Head(triggers).pattern).regex
         IN  (IF Regex_is_match(regex, content)
              THEN <<[excerpt |-> content, relevant |-> Regex_find(regex, content).value]>>
              ELSE <<>>)
             \o CollectedMatches(Tail(triggers), content)

\* the OutputItem the response item `kind` stands for
ExpectedItem(kind, query, doc) ==
    CASE kind = "Url"         -> [item |-> "Url", text |-> doc.url, matches |-> <<>>]
      [] kind = "Mime"        -> [item |-> "Mime", text |-> doc.mime, matches |-> <<>>]
      [] kind = "Domain"      -> [item |-> "Domain", text |-> doc.domain, matches |-> <<>>]
      [] kind = "Excerpt"     ->
            [item |-> "Excerpt", text |-> None,
             matches |-> CollectedMatches(
                             query.triggers,
                             CompiledDocument_content(doc, query.scope.content))]
      [] kind = "FullContent" ->
            [item |-> "FullContent", text |-> Some(doc.raw), matches |-> <<>>]

\* C21: every Output of scan_single for query q and document d has one item
\* per entry of q.response.include, in the same order and of the same variant
\* (Url = d.url, Mime = d.mime, Domain = d.domain, Excerpt = the collected
\* matches, FullContent = d.raw also when the scope content is Text), with
\* query_id = q.id, kind = q.response.kind and no id.
C21_OutputAssembly ==
    ScannedSingle =>
        \A k \in DOMAIN ret :
            LET include == call.query.response.include
            IN  /\ DOMAIN ret[k].items = DOMAIN include
                /\ \A i \in DOMAIN include :
                      ret[k].items[i] = ExpectedItem(include[i], call.query, call.document)
                /\ ret[k].query_id = call.query.id
                /\ ret[k].kind = call.query.response.kind
                /\ ret[k].id = None

\* an Output with FullContent and Excerpt for a query scoped on Text, of a
\* document whose text is not its raw content
C21_Witness ==
    /\ ScannedSingle
    /\ call.query.response = [kind |-> "Partial", include |-> <<"FullContent", "Excerpt">>]
    /\ call.query.scope.content = "Text"
    /\ call.document.raw # call.document.text
    /\ call.document.mime.some /\ call.document.domain.some
    /\ Len(ret) = 1
    /\ ret[1].items[2].matches # <<>>

\* `requires` is more than the threshold has considerations
Unreachable(threshold) == threshold.requires > Len(threshold.considers)

\* C22 as stated: on a map that resolves every referenced id, a threshold
\* whose `requires` exceeds the number of its considers evaluates to false.
C22_NeverTrue ==
    (Evaluated /\ Resolves(call.triggers, call.threshold) /\ Unreachable(call.threshold))
        => ret = [ok |-> TRUE, value |-> FALSE]

\* C22 amended: on such a map the count never reaches `requires`, so
\* evaluate returns the value of `inverse`: false for a threshold that is not
\* inverse, true for one that is.
C22_RequiresBeyondConsiders ==
    (Evaluated /\ Resolves(call.triggers, call.threshold) /\ Unreachable(call.threshold))
        => ret = [ok |-> TRUE, value |-> call.threshold.inverse]

\* every consideration holds, two of them, and the threshold is not inverse
C22_Witness ==
    /\ Evaluated
    /\ Resolves(call.triggers, call.threshold)
    /\ Unreachable(call.threshold)
    /\ Len(call.threshold.considers) = 2
    /\ \A i \in DOMAIN call.threshold.considers :
          /\ ~IsNested(call.threshold.considers[i])
          /\ call.triggers[call.threshold.considers[i].id]
    /\ ~call.threshold.inverse
    /\ ret = [ok |-> TRUE, value |-> FALSE]

\* requires = 0 and inverse = false at the top level
Unconditional(threshold) == threshold.requires = 0 /\ ~threshold.inverse

\* after a successful QueryGroup.compile every member whose top-level
\* threshold is unconditional is in always_run_queries and not in `queries`
UnconditionalAlwaysRun ==
    (GroupCompiled /\ ret.ok) =>
        \A i \in DOMAIN call.queries :
            Unconditional(call.queries[i].threshold)
                => /\ Query_compile(call.queries[i]).value
                          \in Range(ret.value.always_run_queries)
                   /\ Query_compile(call.queries[i]).value \notin Range(ret.value.queries)

\* C23 as stated: a threshold with requires = 0 and inverse = false
\* evaluates to true on every results map, and a query with such a top-level
\* threshold is placed in always_run.
C23_Unconditional ==
    /\ (Evaluated /\ Unconditional(call.threshold)) => ret = [ok |-> TRUE, value |-> TRUE]
    /\ UnconditionalAlwaysRun

\* C23 amended: such a threshold evaluates to true on every results map that
\* resolves every id it references and to Err on every other map, and a query
\* with such a top-level threshold is in always_run_queries of every group
\* that compile returns.
C23_UnconditionalWhenResolved ==
    /\ (Evaluated /\ Unconditional(call.threshold))
          => IF Resolves(call.triggers, call.threshold)
             THEN ret = [ok |-> TRUE, value |-> TRUE]
             ELSE ~ret.ok
    /\ UnconditionalAlwaysRun

\* a group of a prefiltered query and a query on Text whose threshold is
\* unconditional, with a trigger among its considers
C23_Witness ==
    /\ GroupCompiled /\ ret.ok
    /\ Len(call.queries) = 2
    /\ Unconditional(call.queries[2].threshold)
    /\ call.queries[2].threshold.considers # <<>>
    /\ call.queries[2].scope.content = "Text"
    /\ ret.value.always_run_queries = <<Query_compile(call.queries[2]).value>>
    /\ ret.value.queries = <<Query_compile(call.queries[1]).value>>

DocumentCompiled == call.op = "document_compile"

\* the document's mime is "text/html" or its url ends with ".html"
ClassifiedHtml(doc) ==
    \/ doc.mime = Some(TextHtml)
    \/ /\ doc.url.some
       /\ Len(doc.url.value) >= 5
       /\ \A i \in 1..5 : doc.url.value[Len(doc.url.value) - 5 + i] = DotHtml[i]

\* C24: Document.compile always returns a CompiledDocument; the document is
\* treated as HTML exactly when its mime is "text/html" or its url ends with
\* ".html"; for a document not so classified text equals raw, so that
\* content(Text) = content(Raw) and a trigger hits on both or on neither.
C24_DocumentCompile ==
    DocumentCompiled =>
        /\ ret.ok
        /\ Document_detect_document_kind(call.document) = "Html"
              <=> ClassifiedHtml(call.document)
        /\ ~ClassifiedHtml(call.document) =>
              /\ ret.value.text = ret.value.raw
              /\ CompiledDocument_content(ret.value, "Text")
                    = CompiledDocument_content(ret.value, "Raw")
              /\ \A trigger \in {TriggerA, TriggerB, TriggerA2} :
                    CompiledTrigger_quick_check(
                        Trigger_compile(trigger).value,
                        CompiledDocument_content(ret.value, "Text"))
                    = CompiledTrigger_quick_check(
                        Trigger_compile(trigger).value,
                        CompiledDocument_content(ret.value, "Raw"))

\* a document with markup that is not classified as HTML although its url
\* holds ".html" and its mime starts like "text/html": the markup stays in
\* text, and trigger A2 (the literal "a") hits
C24_Witness ==
    /\ DocumentCompiled
    /\ call.document.url = Some(DotHtml \o <<"a">>)
    /\ call.document.mime = Some(<<"t", "e", "x", "t">>)
    /\ call.document.data = <<"<", "a", ">">>
    /\ ret.ok
    /\ ret.value.text = <<"<", "a", ">">>
    /\ CompiledTrigger_quick_check(Trigger_compile(TriggerA2).value, ret.value.text)

---------------------------------------------------------------------------
(* Further claims about the scan engine. *)

\* C25: each decrement of the counter comes after the increment for the same
\* batch (the batch the coordinator counts down has been accepted), so the
\* counter never underflows, lies between 0 and the number of accepted
\* batches and, while no process() call is in progress, equals the accepted
\* batches less those the coordinator has counted down.
C25_PendingNeverUnderflows ==
    /\ coordinator.pc = "decrement" => coordinator.batch \in accepted
    /\ ~poisoned
    /\ pending_processing <= Cardinality(accepted)
    /\ caller.pc = "idle" => pending_processing = Cardinality(Untaken)

\* the requests of worker w that the coordinator has not answered with a
\* batch: those in the request channel and the one the coordinator holds
Outstanding(w) ==
    Occurrences(rx_requests, w)
    + (IF coordinator.pc \in {"recv_batch", "decrement", "route"} /\ coordinator.request = w
       THEN 1 ELSE 0)

\* C26: the coordinator routes a batch only to a worker whose request it
\* holds unanswered; each worker's input channel holds at most one batch,
\* each worker has at most one outstanding request, and no batch is queued
\* for a worker that is processing another batch or has not asked.
C26_PullRouting ==
    /\ coordinator.pc = "route" =>
          /\ coordinator.request \in Workers
          /\ Occurrences(rx_requests, coordinator.request) = 0
          /\ worker[coordinator.request].pc = "recv"
    /\ \A w \in Workers :
          /\ Len(rx_inputs[w]) <= 1
          /\ Outstanding(w) <= 1
          /\ Outstanding(w) = 1 => worker[w].pc = "recv" /\ rx_inputs[w] = <<>>
          /\ rx_inputs[w] # <<>> => worker[w].pc = "recv"
          /\ worker[w].pc = "scan" => rx_inputs[w] = <<>>

\* one worker processes a batch while the other has been handed the next
\* one and a third request is outstanding nowhere
C26_Witness ==
    /\ threads = 2
    /\ \E w, v \in Workers :
          /\ w # v
          /\ worker[w].pc = "scan"
          /\ rx_inputs[v] # <<>>
          /\ Outstanding(w) = 0 /\ Outstanding(v) = 0

---------------------------------------------------------------------------
(* Claims about the engine fed with documents (checked under               *)
(* BatchEngineSpec).                                                       *)

\* the reference is unpopulated and there is no file at its path
LoadFails(reference) ==
    reference.kind = "Unpopulated" /\ reference.path[1] # "f"

\* the document a reference stands for: the one it holds, or the file at
\* its path with the path as url
DocumentOf(reference) ==
    IF reference.kind = "Populated" THEN reference.document
    ELSE [url |-> Some(reference.path), data |-> <<"a">>, mime |-> None]

\* the positions of batch b whose reference is not skipped
Kept(b) == {i \in DOMAIN batches[b] : ~LoadFails(batches[b][i])}

\* what the group's scan_single may return for the document at position i
OutputsOfDocument(b, i) ==
    ScanSingleResults(group.value, Document_compile(DocumentOf(batches[b][i])).value)

\* the OutputBatches that hold, for every kept document of batch b from
\* position i on and in the order of the batch, the outputs of scan_single
\* for it, and nothing for the skipped ones
RECURSIVE ExpectedFrom(_, _)
ExpectedFrom(b, i) ==
    IF i > Len(batches[b]) THEN {<<>>}
    ELSE LET rest == ExpectedFrom(b, i + 1)
         IN  IF i \in Kept(b)
             THEN {head \o tail : head \in OutputsOfDocument(b, i), tail \in rest}
             ELSE rest

ExpectedOutputs(b) == ExpectedFrom(b, 1)

\* C27: a worker that ends processing a batch has skipped the unpopulated
\* references whose load failed and compiled and scanned every other
\* document of the batch, has sent exactly one OutputBatch for it (empty when
\* nothing matched or nothing loaded) and goes on to request the next batch.
C27_LoadFailureIsolation ==
    [][\A w \in Workers :
          (worker[w].pc = "scan" /\ worker'[w].pc # "scan")
              => /\ worker'[w].pc = "request"
                 /\ ultimate' = Append(ultimate, worker[w].batch)
                 /\ produced'[worker[w].batch] \in ExpectedOutputs(worker[w].batch)]_vars

\* a batch whose second reference failed to load has been answered with the
\* outputs of its first and third documents, and a batch has been answered
\* by the worker now asking for more
C27_Witness ==
    \E b \in 1..MaxBatches :
        /\ Emitted(b)
        /\ Len(batches[b]) = 3
        /\ Kept(b) = {1, 3}
        /\ Len(produced[b]) = 3
        /\ \E w \in Workers : worker[w].pc = "recv"

\* the url an Output reports (its Url item)
UrlsOf(output) ==
    {output.items[k].text : k \in {j \in DOMAIN output.items : output.items[j].item = "Url"}}

\* the urls of the documents of batch b
BatchUrls(b) == {DocumentOf(batches[b][i]).url : i \in DOMAIN batches[b]}

\* C28: every OutputBatch lock_for_outputs delivered is the OutputBatch of
\* one submitted batch, delivered once, and holds outputs of documents of
\* that batch only, grouped by document in the order of the batch with the
\* skipped documents left out, each group being what the group's scan_single
\* returns for the document; nothing is said about the order of delivery.
C28_BatchIntegrity ==
    \A i \in DOMAIN delivered :
        LET b == delivered[i]
        IN  /\ b \in 1..submitted
            /\ \A j \in DOMAIN delivered : delivered[j] = b => j = i
            /\ \A k \in DOMAIN produced[b] : UrlsOf(produced[b][k]) \subseteq BatchUrls(b)
            /\ produced[b] \in ExpectedOutputs(b)

\* the second batch was delivered before the first, each with the outputs
\* of two documents
C28_Witness ==
    /\ delivered = <<2, 1>>
    /\ \A b \in {1, 2} :
          /\ Cardinality(Kept(b)) = 2
          /\ Cardinality(UNION {UrlsOf(produced[b][k]) : k \in DOMAIN produced[b]}) = 2
    /\ produced[1] # produced[2]

---------------------------------------------------------------------------
(* Further claims about compiled groups (checked under CallSpec). *)

\* the group compile returned, in the state after compile and in the state
\* after the group's scan_single
CompiledGroup == IF ScannedGroup THEN call.group ELSE ret.value

\* the patterns of the shared matcher whose owner is entry k of `queries`
\* (k counted from 0), in the order of the matcher
OwnedPatterns(g, k) ==
    LET owned == SelectSeq([m \in DOMAIN g.regex_collected_query_index |-> m],
                           LAMBDA m : g.regex_collected_query_index[m] = k)
    IN  [n \in DOMAIN owned |-> g.regex_collected[owned[n]]]

\* the compiled patterns of the triggers of the query that its threshold
\* references, in the order of the triggers
ReferencedPatterns(query) ==
    LET referenced == SelectSeq(query.triggers,
                                LAMBDA t : t.id \in ReferencedIds(query.threshold))
    IN  [n \in DOMAIN referenced |->
            Regex_new(Pattern_get_as_safe_regex(referenced[n].pattern)).prog]

WarnsOfMatch(query) ==
    LET issues == Query_validate(query)
    IN  issues.some /\ Issue_Warning("threshold") \in Range(issues.value)

\* none of the query's triggers hits the content the query scans
NoTriggerHits(query, doc) ==
    \A i \in DOMAIN query.triggers :
        ~CompiledTrigger_quick_check(query.triggers[i],
                                     CompiledDocument_content(doc, query.scope.content))

\* C30: a query for which Query.validate emits the warning that it matches
\* when no trigger matches is placed in always_run_queries, and not in
\* `queries`, by every QueryGroup.compile that succeeds, alone or in a group;
\* and a query placed in `queries` gives no output on a document on which
\* none of its triggers hits.
C30_WarningImpliesAlwaysRun ==
    /\ (Validated /\ ret.some /\ Issue_Warning("threshold") \in Range(ret.value)) =>
          LET compiled == QueryGroup_compile(<<call.query>>)
          IN  compiled.ok =>
                 /\ compiled.value.queries = <<>>
                 /\ compiled.value.always_run_queries = <<Query_compile(call.query).value>>
    /\ ((GroupCompiled /\ ret.ok) \/ ScannedGroup) =>
          \A k \in DOMAIN call.queries :
              WarnsOfMatch(call.queries[k]) =>
                 /\ Query_compile(call.queries[k]).value
                        \in Range(CompiledGroup.always_run_queries)
                 /\ Query_compile(call.queries[k]).value \notin Range(CompiledGroup.queries)
    /\ ScannedGroup =>
          \A n \in DOMAIN call.group.queries :
              NoTriggerHits(call.group.queries[n], call.document) =>
                 /\ CompiledQuery_scan_single(call.group.queries[n], call.document) = <<>>
                 /\ OutputsFor(ret, call.group.queries[n].id) = {}

\* a group was scanned on a document on which no trigger hits: its first
\* query is prefiltered and gave nothing, its second warns only because of a
\* nested threshold, is always-run and gave the one output
C30_Witness ==
    /\ ScannedGroup
    /\ Len(call.group.queries) = 1
    /\ NoTriggerHits(call.group.queries[1], call.document)
    /\ ~WarnsOfMatch(call.queries[1])
    /\ WarnsOfMatch(call.queries[2])
    /\ ~call.queries[2].threshold.inverse
    /\ call.queries[2].threshold.requires > 0
    /\ call.queries[2].scope.content = "Text"
    /\ Len(ret) = 1
    /\ OutputsFor(ret, call.queries[2].id) = {1}

=============================================================================
